---- MODULE Spec2Model ----
(***************************************************************************)
(* A model of the prompt parser of ldm/invoke/prompt_parser.py: the tree   *)
(* model (Fragment, Attention, CrossAttentionControlSubstitute, Prompt,    *)
(* FlattenedPrompt, Blend, Conjunction), PromptParser.flatten, and the     *)
(* pyparsing grammar of build_parser_syntax run by parse_conjunction.      *)
(*                                                                         *)
(* Strings are sequences of one-character strings.  Weights are Python     *)
(* floats in the code; here they are exact rationals <<n, d>> in lowest    *)
(* terms (d > 0), so products and equality tests are exact.                *)
(*                                                                         *)
(* Two consumers of the flattened prompt are modelled as well: the token   *)
(* lists of WeightedFrozenCLIPEmbedder.forward (ldm/modules/encoders/      *)
(* modules.py) and the edit opcodes of                                     *)
(* _get_conditioning_for_cross_attention_control (ldm/invoke/              *)
(* conditioning.py).                                                       *)
(***************************************************************************)
EXTENDS Integers, Sequences, FiniteSets, TLC

VARIABLES
    pc,       \* position of the driver: "build", "flattened", "typing", "parsed"
    stack,    \* tree under construction: open constructor calls, innermost last
    nodes,    \* number of nodes constructed so far
    out,      \* outcome of PromptParser.flatten on the built Conjunction
    alphabet, \* which set of pieces the prompt string is typed from
    input,    \* the prompt string handed to parse_conjunction
    npieces,  \* number of pieces typed into input
    result    \* outcome of parse_conjunction(input)

vars == <<pc, stack, nodes, out, alphabet, input, npieces, result>>

----------------------------------------------------------------------------
(* Bounds of the model *)

MaxNodes == 4
MaxPieces == 4

----------------------------------------------------------------------------
(* Rational arithmetic standing in for Python floats *)

Abs(n) == IF n < 0 THEN -n ELSE n

RECURSIVE GCD(_, _)
GCD(a, b) == IF b = 0 THEN a ELSE GCD(b, a % b)

Rat(n, d) ==
    IF n = 0 THEN <<0, 1>>
    ELSE LET g == GCD(Abs(n), d) IN <<n \div g, d \div g>>

One == <<1, 1>>
Zero == <<0, 1>>

Mul(x, y) == Rat(x[1] * y[1], x[2] * y[2])
Add(x, y) == Rat(x[1] * y[2] + y[1] * x[2], x[2] * y[2])

RECURSIVE Pow(_, _)
Pow(b, k) == IF k = 0 THEN One ELSE Mul(b, Pow(b, k - 1))

----------------------------------------------------------------------------
(* String helpers: str.replace, str.strip, ' '.join *)

MatchesAt(s, i, pat) ==
    /\ i + Len(pat) - 1 <= Len(s)
    /\ \A k \in 1..Len(pat) : s[i + k - 1] = pat[k]

RECURSIVE ReplaceFrom(_, _, _, _)
ReplaceFrom(s, i, pat, rep) ==
    IF i > Len(s) THEN <<>>
    ELSE IF MatchesAt(s, i, pat)
         THEN rep \o ReplaceFrom(s, i + Len(pat), pat, rep)
         ELSE <<s[i]>> \o ReplaceFrom(s, i + 1, pat, rep)

\* Python's s.replace(pat, rep): left to right, non-overlapping
Replace(s, pat, rep) == ReplaceFrom(s, 1, pat, rep)

Contains(s, pat) == \E i \in 1..Len(s) : MatchesAt(s, i, pat)

\* string.whitespace (the vertical tab, which behaves as the form feed does,
\* has no TLA+ string escape and is left out)
StringWhitespace == {" ", "\t", "\n", "\r", "\f"}

\* a faulty variant of IsBlank: only the empty string is blank
IsBlankEmptyOnly(s) == Len(s) = 0

\* len(s.strip()) == 0
IsBlank(s) == \A i \in 1..Len(s) : s[i] \in StringWhitespace

----------------------------------------------------------------------------
(* Outcomes: a returned value or a raised exception *)

Ok(v) == [st |-> "ok", val |-> v, exc |-> ""]
Raise(e) == [st |-> "raise", val |-> <<>>, exc |-> e]
None == [st |-> "none", val |-> <<>>, exc |-> ""]

----------------------------------------------------------------------------
(* The tree model *)

BS == "\\"

\* Fragment.__init__: the three replace calls, in the code's order
Unescape(text) ==
    IF Contains(text, <<BS, "\"">>) \/ Contains(text, <<BS, "(">>)
           \/ Contains(text, <<BS, ")">>)
    THEN Replace(Replace(Replace(text, <<BS, "(">>, <<"(">>),
                         <<BS, ")">>, <<")">>),
                 <<BS, "\"">>, <<"\"">>)
    ELSE text

Fragment(text, weight) ==
    [type |-> "Fragment", text |-> Unescape(text), weight |-> weight]

Attention(weight, children) ==
    [type |-> "Attention", weight |-> weight, children |-> children]

\* Option maps (Python dicts) are functions from keys (strings, so sequences
\* of characters) to values: a float (num, v) or a string (s).
NumVal(r) == [num |-> TRUE, v |-> r, s |-> <<>>]
StrVal(t) == [num |-> FALSE, v |-> Zero, s |-> t]

EmptyDict == [k \in {} |-> NumVal(Zero)]

\* dict.update
DictUpdate(d, e) ==
    [k \in DOMAIN d \cup DOMAIN e |-> IF k \in DOMAIN e THEN e[k] ELSE d[k]]

DictRemove(d, key) == [k \in DOMAIN d \ {key} |-> d[k]]

\* 1 - f ** (1/3) is irrational in general; the model keeps the cube root
\* in a table: exact for 0, 1 and 1/8, to seven places for 1/2.
CubeRoot(f) ==
    CASE f = <<0, 1>> -> <<0, 1>>
      [] f = <<1, 1>> -> <<1, 1>>
      [] f = <<1, 8>> -> <<1, 2>>
      [] f = <<1, 2>> -> Rat(7937005, 10000000)
      [] OTHER -> <<-1, 1>>

k_s_start == <<"s", "_", "s", "t", "a", "r", "t">>
k_s_end == <<"s", "_", "e", "n", "d">>
k_t_start == <<"t", "_", "s", "t", "a", "r", "t">>
k_t_end == <<"t", "_", "e", "n", "d">>
k_shape_freedom == <<"s", "h", "a", "p", "e", "_", "f", "r", "e", "e", "d", "o", "m">>

\* lines 149-154; s_end is 0.2062994740159002 in the code
default_options ==
    [k \in {k_s_start, k_s_end, k_t_start, k_t_end} |->
        CASE k = k_s_start -> NumVal(Zero)
          [] k = k_s_end -> NumVal(Rat(2062995, 10000000))
          [] k = k_t_start -> NumVal(Zero)
          [] k = k_t_end -> NumVal(One)]

\* line 157: options.pop('shape_freedom', None) acts on the caller's dict,
\* which is what the caller holds once the constructor has returned
OptionsAfterInit(options) == DictRemove(options, k_shape_freedom)

\* a faulty variant of MergedOptions: shape_freedom is not converted
MergedOptionsUnconverted(options) == DictUpdate(default_options, options)

\* The options merged by CrossAttentionControlSubstitute.__init__
MergedOptions(options) ==
    IF k_shape_freedom \in DOMAIN options
    THEN LET f == options[k_shape_freedom]
             rest == DictRemove(options, k_shape_freedom)
             conv == [default_options EXCEPT
                        ![k_s_end] = NumVal(Add(One, Mul(<<-1, 1>>, CubeRoot(f.v))))]
         IN DictUpdate(conv, rest)
    ELSE DictUpdate(default_options, options)

\* CrossAttentionControlSubstitute.__init__; shape_freedom given as a word
\* makes the ** raise TypeError
SubstituteRaises(options) ==
    k_shape_freedom \in DOMAIN options /\ ~options[k_shape_freedom].num

\* a faulty variant of CrossAttentionControlSubstitute: an empty edited stays
\* empty
SubstituteKeepsEmpty(original, edited, options) ==
    [type |-> "CrossAttentionControlSubstitute",
     original |-> original,
     edited |-> edited,
     options |-> MergedOptions(options)]

CrossAttentionControlSubstitute(original, edited, options) ==
    [type |-> "CrossAttentionControlSubstitute",
     original |-> original,
     edited |-> IF Len(edited) > 0 THEN edited ELSE <<Fragment(<<>>, One)>>,
     options |-> MergedOptions(options)]

Prompt(parts) == [type |-> "Prompt", children |-> parts]

FlattenedPrompt(parts) == [type |-> "FlattenedPrompt", children |-> parts]

\* FlattenedPrompt.is_empty, lines 68-70: children[0].text is read whenever
\* there is exactly one child; a CrossAttentionControlSubstitute has no
\* attribute text
is_empty(self) ==
    IF Len(self.children) = 0 THEN Ok(TRUE)
    ELSE IF Len(self.children) # 1 THEN Ok(FALSE)
    ELSE IF self.children[1].type = "Fragment"
    THEN Ok(Len(self.children[1].text) = 0)
    ELSE Raise("AttributeError")

BlendNode(prompts, weights, normalize_weights) ==
    [type |-> "Blend", prompts |-> prompts, weights |-> weights,
     normalize_weights |-> normalize_weights]

\* a faulty variant of BlendRaises: the counts are not compared
BlendRaisesNoCount(prompts, weights) ==
    \E i \in 1..Len(prompts) :
        \/ prompts[i].type \notin {"Prompt", "FlattenedPrompt"}
        \/ \E j \in 1..Len(prompts[i].children) :
              prompts[i].children[j].type = "CrossAttentionControlSubstitute"

\* Blend.__init__: the checks that raise ParsingException
BlendRaises(prompts, weights) ==
    \/ Len(prompts) # Len(weights)
    \/ \E i \in 1..Len(prompts) :
          \/ prompts[i].type \notin {"Prompt", "FlattenedPrompt"}
          \/ \E j \in 1..Len(prompts[i].children) :
                prompts[i].children[j].type = "CrossAttentionControlSubstitute"

Blend(prompts, weights, normalize_weights) ==
    IF BlendRaises(prompts, weights) THEN Raise("ParsingException")
    ELSE Ok(BlendNode(prompts, weights, normalize_weights))

\* Conjunction.__init__ with weights=None
Conjunction(prompts) ==
    [type |-> "Conjunction", prompts |-> prompts,
     weights |-> [i \in 1..Len(prompts) |-> One]]

ConjunctionW(prompts, weights) ==
    IF Len(weights) # Len(prompts) THEN Raise("ParsingException")
    ELSE Ok([type |-> "Conjunction", prompts |-> prompts, weights |-> weights])

----------------------------------------------------------------------------
(* PromptParser.flatten *)

Last(s) == s[Len(s)]
Front(s) == SubSeq(s, 1, Len(s) - 1)

\* a faulty variant of FusedFragment: the texts are joined with no space
FusedFragmentNoSpace(last, this) == Fragment(last.text \o this.text, last.weight)

\* a faulty variant of FusedFragment: the merged Fragment has weight 1.0
FusedFragmentUnitWeight(last, this) ==
    Fragment(last.text \o <<" ">> \o this.text, One)

\* fuse_fragments, lines 317-319: the merged Fragment
FusedFragment(last, this) ==
    Fragment(last.text \o <<" ">> \o this.text, last.weight)

\* fuse_fragments, lines 312-317: whether x merges into the last result
Fuses(res, x) ==
    /\ Len(res) > 0
    /\ Last(res).type # "CrossAttentionControlSubstitute"
    /\ Last(res).weight = x.weight

RECURSIVE fuse_from(_, _, _)
fuse_from(items, i, res) ==
    IF i > Len(items) THEN res
    ELSE LET x == items[i] IN
         IF x.type = "CrossAttentionControlSubstitute"
         THEN fuse_from(items, i + 1,
                 Append(res, CrossAttentionControlSubstitute(
                                 fuse_from(x.original, 1, <<>>),
                                 fuse_from(x.edited, 1, <<>>),
                                 x.options)))
         ELSE IF Fuses(res, x)
              THEN fuse_from(items, i + 1,
                             Append(Front(res), FusedFragment(Last(res), x)))
              ELSE fuse_from(items, i + 1, Append(res, x))

fuse_fragments(items) == fuse_from(items, 1, <<>>)

\* a faulty variant of AttentionScale: the enclosing scale is forgotten
AttentionScaleInnerOnly(weight_scale, node) == node.weight

\* flatten_internal, line 334: the scale handed to an Attention's children
AttentionScale(weight_scale, node) == Mul(weight_scale, node.weight)

\* flatten_internal, line 336: the Fragment emitted for a Fragment
FlatFragment(node, weight_scale) ==
    Fragment(node.text, Mul(node.weight, weight_scale))

\* a faulty variant of FlatSubstitute: the options are not handed on
FlatSubstituteNoOptions(original, edited, node) ==
    CrossAttentionControlSubstitute(original, edited, EmptyDict)

\* flatten_internal, line 340: the substitute emitted for a substitute
FlatSubstitute(original, edited, node) ==
    CrossAttentionControlSubstitute(original, edited, node.options)

\* a faulty variant of FlatPrompt: the Prompt is rebuilt, not flattened
FlatPromptAsPrompt(flattened_prompt) == Prompt(flattened_prompt)

\* flatten_internal, line 353: the FlattenedPrompt emitted for a Prompt
FlatPrompt(flattened_prompt) == FlattenedPrompt(fuse_fragments(flattened_prompt))

RECURSIVE flatten_internal(_, _, _)
RECURSIVE flatten_list(_, _, _, _)

\* flatten_internal on a list or ParseResults: the elements i.. of the list,
\* each appending to results; an exception ends the walk
flatten_list(list, i, weight_scale, results) ==
    IF i > Len(list) THEN Ok(results)
    ELSE LET r == flatten_internal(list[i], weight_scale, results) IN
         IF r.st = "ok" THEN flatten_list(list, i + 1, weight_scale, r.val)
         ELSE r

flatten_internal(node, weight_scale, results) ==
    CASE node.type = "Attention" ->
            flatten_list(node.children, 1, AttentionScale(weight_scale, node), results)
      [] node.type = "Fragment" ->
            Ok(Append(results, FlatFragment(node, weight_scale)))
      [] node.type = "CrossAttentionControlSubstitute" ->
            LET original == flatten_list(node.original, 1, weight_scale, <<>>)
                edited == flatten_list(node.edited, 1, weight_scale, <<>>)
            IN IF original.st # "ok" THEN original
               ELSE IF edited.st # "ok" THEN edited
               ELSE Ok(Append(results,
                              FlatSubstitute(original.val, edited.val, node)))
      [] node.type = "Blend" ->
            LET subs == flatten_list(node.prompts, 1, weight_scale, <<>>) IN
            IF subs.st # "ok" THEN subs
            ELSE LET b == Blend(subs.val, node.weights, node.normalize_weights) IN
                 IF b.st # "ok" THEN b ELSE Ok(Append(results, b.val))
      [] node.type = "Prompt" ->
            LET flat == flatten_list(node.children, 1, weight_scale, <<>>) IN
            IF flat.st # "ok" THEN flat
            ELSE Ok(Append(results, FlatPrompt(flat.val)))
      [] OTHER -> Raise("ParsingException")

RECURSIVE flatten_parts(_, _, _)
flatten_parts(parts, i, flattened_parts) ==
    IF i > Len(parts) THEN Ok(flattened_parts)
    ELSE LET r == flatten_internal(parts[i], One, <<>>) IN
         IF r.st = "ok" THEN flatten_parts(parts, i + 1, flattened_parts \o r.val)
         ELSE r

\* PromptParser.flatten(root)
flatten(root) ==
    LET parts == flatten_parts(root.prompts, 1, <<>>) IN
    IF parts.st # "ok" THEN parts
    ELSE ConjunctionW(parts.val, root.weights)

----------------------------------------------------------------------------
(* The pyparsing grammar of build_parser_syntax.  A parser element is an   *)
(* operator of the string s and the location i (the index of the next      *)
(* character); it yields PR(end, tokens), PF (a ParseException: no match)  *)
(* or PX(e) (another exception, raised by a parse action, which no         *)
(* pyparsing element catches).                                             *)

PR(p, t) == [st |-> "ok", pos |-> p, toks |-> t, exc |-> ""]
PF == [st |-> "fail", pos |-> 0, toks |-> <<>>, exc |-> ""]
PX(e) == [st |-> "raise", pos |-> 0, toks |-> <<>>, exc |-> e]

\* the first alternative that does not fail (pp.MatchFirst); an exception
\* raised by an alternative's parse action ends the parse
First2(r1, r2) == IF r1.st # "fail" THEN r1 ELSE r2
First3(r1, r2, r3) == IF r1.st # "fail" THEN r1 ELSE First2(r2, r3)

\* ParserElement._parse of the element of the grammar with the given name at
\* location i of s.  The elements of the grammar refer to each other, some
\* through pp.Forward: every reference to a named element goes through
\* parser_element, which is defined after them.
RECURSIVE parser_element(_, _, _)

\* tokens that are not tree nodes
Group(items) == [type |-> "Group", items |-> items]
StrTok(t) == [type |-> "Str", s |-> t]
NumTok(r) == [type |-> "Num", v |-> r]

\* ParserElement.DEFAULT_WHITE_CHARS, also the characters White() matches
WhiteChars == {" ", "\t", "\n", "\r"}

\* syntactic_chars, line 452
syntactic_chars == {"(", ")", "\"", ",", ".", "+", "-", "="}

Digits == {"0", "1", "2", "3", "4", "5", "6", "7", "8", "9"}
Alphas == {"a", "b", "c", "d", "e", "f", "g", "h", "i", "j", "k", "l", "m",
           "n", "o", "p", "q", "r", "s", "t", "u", "v", "w", "x", "y", "z"}

\* ParserElement.preParse: skip the default whitespace
RECURSIVE SkipWS(_, _)
SkipWS(s, i) ==
    IF i <= Len(s) /\ s[i] \in WhiteChars THEN SkipWS(s, i + 1) ELSE i

\* the end of the maximal run of characters of set cs starting at i
RECURSIVE RunEnd(_, _, _)
RunEnd(s, i, cs) ==
    IF i <= Len(s) /\ s[i] \in cs THEN RunEnd(s, i + 1, cs) ELSE i

\* the end of the maximal run of characters not in set cs starting at i
RECURSIVE RunEndNotIn(_, _, _)
RunEndNotIn(s, i, cs) ==
    IF i <= Len(s) /\ s[i] \notin cs THEN RunEndNotIn(s, i + 1, cs) ELSE i

\* pp.Literal(lit).suppress(), skipping whitespace first
pLit(s, i, lit) ==
    LET j == SkipWS(s, i) IN
    IF MatchesAt(s, j, lit) THEN PR(j + Len(lit), <<>>) ELSE PF

\* pp.White() with its own preParse: it skips the form feed, then matches
\* one or more of the default whitespace characters
pWhite(s, i) ==
    LET j == RunEnd(s, i, {"\f"})
        e == RunEnd(s, j, WhiteChars)
    IN IF e > j THEN PR(e, <<>>) ELSE PF

\* restricted_word, lines 463-467: the characters one step of the
\* OneOrMore(MatchFirst([...])) inside the Combine consumes at j (0: no match)
RestrictedStep(s, j) ==
    IF j > Len(s) THEN 0
    ELSE IF s[j] = BS /\ j + 1 <= Len(s) /\ s[j + 1] \in syntactic_chars THEN 2
    ELSE IF s[j] \in {"-", "+"} /\ j + 1 <= Len(s)
              /\ s[j + 1] \notin WhiteChars \cup syntactic_chars THEN 1
    ELSE IF s[j] \notin StringWhitespace \cup syntactic_chars THEN 1
    ELSE 0

RECURSIVE RestrictedEnd(_, _)
RestrictedEnd(s, j) ==
    IF RestrictedStep(s, j) = 0 THEN j
    ELSE RestrictedEnd(s, j + RestrictedStep(s, j))

\* restricted_word with its parse action, line 468
restricted_word(s, i) ==
    LET j == SkipWS(s, i)
        e == RestrictedEnd(s, j)
    IN IF e > j THEN PR(e, <<Fragment(SubSeq(s, j, e - 1), One)>>) ELSE PF

\* restricted_fragment, line 472
RECURSIVE restricted_fragment_from(_, _, _)
restricted_fragment_from(s, i, toks) ==
    LET r == parser_element("restricted_word", s, i) IN
    IF r.st = "ok" THEN restricted_fragment_from(s, r.pos, toks \o r.toks)
    ELSE IF Len(toks) > 0 THEN PR(i, toks) ELSE PF

restricted_fragment(s, i) == restricted_fragment_from(s, i, <<>>)

\* unrestricted_word, line 537: CharsNotIn does not skip whitespace
unrestricted_word(s, i) ==
    LET e == RunEndNotIn(s, i, StringWhitespace) IN
    IF e > i THEN PR(e, <<Fragment(SubSeq(s, i, e - 1), One)>>) ELSE PF

DigitVal(c) ==
    CASE c = "0" -> 0 [] c = "1" -> 1 [] c = "2" -> 2 [] c = "3" -> 3
      [] c = "4" -> 4 [] c = "5" -> 5 [] c = "6" -> 6 [] c = "7" -> 7
      [] c = "8" -> 8 [] c = "9" -> 9

\* the value of the run of digits s[i..e-1]
RECURSIVE DigitsValue(_, _, _, _)
DigitsValue(s, i, e, acc) ==
    IF i >= e THEN acc
    ELSE DigitsValue(s, i + 1, e, acc * 10 + DigitVal(s[i]))

\* whether a sign character stands at j (1) or not (0)
SignAt(s, j) == IF j <= Len(s) /\ s[j] \in {"+", "-"} THEN 1 ELSE 0

\* the regex \d+\.\d*|\.\d+ at a: ie is the end of the digits before the
\* dot, fe the end of the digits after it; the result is the end of the
\* match, 0 for no match
RealEndAfter(a, ie, fe) == IF ie > a \/ fe > ie + 1 THEN fe ELSE 0

RealEndFrom(s, a, ie) ==
    IF ie <= Len(s) /\ s[ie] = "."
    THEN RealEndAfter(a, ie, RunEnd(s, ie + 1, Digits))
    ELSE 0

RealEnd(s, a) == RealEndFrom(s, a, RunEnd(s, a, Digits))

\* float() of the unsigned decimal literal s[i..e-1], read digit by digit
\* after digits worth num / den; frac: the dot has been read
RECURSIVE DecimalValue(_, _, _, _, _, _)
DecimalValue(s, i, e, num, den, frac) ==
    IF i >= e THEN Rat(num, den)
    ELSE IF s[i] = "." THEN DecimalValue(s, i + 1, e, num, den, TRUE)
    ELSE DecimalValue(s, i + 1, e, num * 10 + DigitVal(s[i]),
                      IF frac THEN den * 10 ELSE den, frac)

\* the token of a real whose digits start at a and whose match ends at e
RealTok(s, j, a, e) ==
    IF e = 0 THEN PF
    ELSE PR(e, <<NumTok(Mul(IF s[j] = "-" THEN <<-1, 1>> ELSE One,
                            DecimalValue(s, a, e, 0, 1, FALSE)))>>)

\* pyparsing_common.real, the regex [+-]?(?:\d+\.\d*|\.\d+), at j (no skip)
RealAt(s, j) == RealTok(s, j, j + SignAt(s, j), RealEnd(s, j + SignAt(s, j)))

\* pp.Combine(pp.Optional("-") + pp.Word(pp.nums)) mapped to float, at j
IntegerAt(s, j) ==
    LET neg == j <= Len(s) /\ s[j] = "-"
        a == IF neg THEN j + 1 ELSE j
        e == RunEnd(s, a, Digits)
    IN IF e > a
       THEN PR(e, <<NumTok(Rat((IF neg THEN -1 ELSE 1) * DigitsValue(s, a, e, 0), 1))>>)
       ELSE PF

\* number, lines 457-458
number(s, i) == First2(RealAt(s, SkipWS(s, i)), IntegerAt(s, SkipWS(s, i)))

\* pp.Word(c): a run of the character c
pWordOf(s, i, c) ==
    LET j == SkipWS(s, i)
        e == RunEnd(s, j, {c})
    IN IF e > j THEN PR(e, <<StrTok(SubSeq(s, j, e - 1))>>) ELSE PF

\* pp.QuotedString(quote_char='"', esc_char=None, esc_quote='\\"'): the regex
\* "(?:(?:\\")|(?:[^"\n\r]))*" run with backtracking from inside the quotes
\* at j; the result is the location after the closing quote, 0 for no match
RECURSIVE QuotedEnd(_, _)
QuotedEnd(s, j) ==
    LET viaEsc == IF MatchesAt(s, j, <<BS, "\"">>) THEN QuotedEnd(s, j + 2) ELSE 0
        viaChar == IF j <= Len(s) /\ s[j] \notin {"\"", "\n", "\r"}
                   THEN QuotedEnd(s, j + 1) ELSE 0
    IN IF viaEsc # 0 THEN viaEsc
       ELSE IF viaChar # 0 THEN viaChar
       ELSE IF j <= Len(s) /\ s[j] = "\"" THEN j + 1 ELSE 0

\* QuotedString._parseImpl: the unquoted string with the whitespace escapes
\* and the escaped quotes replaced
QuotedContent(s, j, e) ==
    LET ret == SubSeq(s, j + 1, e - 2)
        ws == IF Contains(ret, <<BS>>)
              THEN Replace(Replace(Replace(Replace(ret,
                       <<BS, "t">>, <<"\t">>), <<BS, "n">>, <<"\n">>),
                       <<BS, "f">>, <<"\f">>), <<BS, "r">>, <<"\r">>)
              ELSE ret
    IN Replace(ws, <<BS, "\"">>, <<"\"">>)

\* line 396-397: the weight of a run of signs
SignWeight(sign, n, attention_plus_base, attention_minus_base) ==
    Pow(IF sign = "+" THEN attention_plus_base ELSE attention_minus_base, n)

\* PromptParser.__init__ defaults, line 257
attention_plus_base == <<11, 10>>
attention_minus_base == <<9, 10>>

\* make_attention, lines 389-401: x[0] is the group, x[1] the weight token
make_attention(group, weight_raw) ==
    Attention(IF weight_raw.type = "Num" THEN weight_raw.v
              ELSE SignWeight(weight_raw.s[1], Len(weight_raw.s),
                              attention_plus_base, attention_minus_base),
              group)

\* the foot of attention, line 533: pp.Word('+') | pp.Word('-') | number
attention_foot(s, i) ==
    First3(pWordOf(s, i, "+"), pWordOf(s, i, "-"),
           parser_element("number", s, i))

\* (expression + pp.StringEnd()).parse_string(fragment_string), line 418
parse_to_end(fragment_string, expression) ==
    LET r == parser_element(expression, fragment_string, 1) IN
    IF r.st # "ok" THEN r
    ELSE IF SkipWS(fragment_string, r.pos) > Len(fragment_string) THEN r
    ELSE PF

\* parse_fragment_str, lines 404-423: the tokens the quoted string becomes,
\* or a ParseException (the quoted element then does not match)
parse_fragment_str(fragment_string, expression) ==
    IF IsBlank(fragment_string) THEN PR(0, <<Fragment(<<>>, One)>>)
    ELSE parse_to_end(Replace(fragment_string, <<"\"">>, <<BS, "\"">>),
                      expression)

\* pp.QuotedString(quote_char='"', esc_char=None, esc_quote='\\"'), line 486
QuotedString(s, i) ==
    LET j == SkipWS(s, i)
        e == IF j <= Len(s) /\ s[j] = "\"" THEN QuotedEnd(s, j + 1) ELSE 0
    IN IF e = 0 THEN PF ELSE PR(e, <<StrTok(QuotedContent(s, j, e))>>)

\* the parse action of a quoted string q that matched, lines 487 and 489
quoted_action(q, expression) ==
    LET x == parse_fragment_str(q.toks[1].s, expression) IN
    IF x.st = "ok" THEN PR(q.pos, x.toks) ELSE x

\* pp.QuotedString with the parse action of quoted_fragment (expression =
\* "fragment", line 487) or of quoted_prompt (expression = "prompt", line 489)
quoted(s, i, expression) ==
    LET q == QuotedString(s, i) IN
    IF q.st # "ok" THEN q ELSE quoted_action(q, expression)

quoted_fragment(s, i) == quoted(s, i, "fragment")
quoted_prompt(s, i) == quoted(s, i, "prompt")

\* potential_target_fragment, line 505
potential_target_fragment(s, i) ==
    First3(parser_element("quoted_fragment", s, i),
           parser_element("parenthesized_fragment", s, i),
           parser_element("restricted_word", s, i))

\* pp.Literal(',').set_parse_action(lambda x: Fragment(x[0])), line 483
comma_fragment(s, i) ==
    LET c == pLit(s, i, <<",">>) IN
    IF c.st # "ok" THEN c ELSE PR(c.pos, <<Fragment(<<",">>, One)>>)

\* one element of fragment, lines 478-484
fragment_item(s, i) ==
    First3(parser_element("attention", s, i),
           parser_element("parenthesized_fragment", s, i),
           First3(parser_element("quoted_fragment", s, i),
                  parser_element("restricted_word", s, i),
                  comma_fragment(s, i)))

\* fragment = pp.ZeroOrMore(...)
RECURSIVE fragment_from(_, _, _)
fragment_from(s, i, toks) ==
    LET r == fragment_item(s, i) IN
    IF r.st = "ok" THEN fragment_from(s, r.pos, toks \o r.toks)
    ELSE IF r.st = "raise" THEN r
    ELSE PR(i, toks)

fragment(s, i) == fragment_from(s, i, <<>>)

\* parenthesized_fragment, line 491
parenthesized_fragment(s, i) ==
    LET lp == pLit(s, i, <<"(">>) IN
    IF lp.st # "ok" THEN PF
    ELSE LET f == parser_element("fragment", s, lp.pos) IN
    IF f.st # "ok" THEN f
    ELSE LET rp == pLit(s, f.pos, <<")">>) IN
    IF rp.st # "ok" THEN PF ELSE PR(rp.pos, f.toks)

\* attention, lines 533-534
attention(s, i) ==
    LET g == parser_element("potential_target_fragment", s, i) IN
    IF g.st # "ok" THEN g
    ELSE IF pWhite(s, g.pos).st = "ok" THEN PF
    ELSE LET w == attention_foot(s, g.pos) IN
    IF w.st # "ok" THEN PF
    ELSE PR(w.pos, <<make_attention(g.toks, w.toks[1])>>)

\* pp.Word(pp.alphanums + '_') (the model's strings hold no upper case)
WordChars == Alphas \cup Digits \cup {"_"}

pWord(s, i) ==
    LET j == SkipWS(s, i)
        e == RunEnd(s, j, WordChars)
    IN IF e > j THEN PR(e, <<StrTok(SubSeq(s, j, e - 1))>>) ELSE PF

\* str(float(lexeme)) for a lexeme of number with no redundant zero
FloatStr(lexeme) ==
    IF ~Contains(lexeme, <<".">>) THEN lexeme \o <<".", "0">>
    ELSE IF Last(lexeme) = "." THEN lexeme \o <<"0">>
    ELSE IF lexeme[1] = "." THEN <<"0">> \o lexeme
    ELSE IF Len(lexeme) > 1 /\ lexeme[1] \in {"+", "-"} /\ lexeme[2] = "."
         THEN <<lexeme[1], "0">> \o Tail(lexeme)
    ELSE lexeme

\* an option group: first is the group's first token (a string), len the
\* number of tokens, val the second token when there is one
OptionTok(first, len, val) ==
    [type |-> "Option", first |-> first, len |-> len, val |-> val]

\* option, line 497: the value of option=value, after the name and the
\* equals sign
option_number(s, i, name) ==
    LET vn == parser_element("number", s, i) IN
    IF vn.st # "ok" THEN vn
    ELSE PR(vn.pos, <<OptionTok(name, 2, NumVal(vn.toks[1].v))>>)

option_word(s, i, name) ==
    LET vw == pWord(s, i) IN
    IF vw.st # "ok" THEN vw
    ELSE PR(vw.pos, <<OptionTok(name, 2, StrVal(vw.toks[1].s))>>)

\* option, line 497: option=value
option_value(s, i) ==
    LET k == pWord(s, i) IN
    IF k.st # "ok" THEN k
    ELSE LET eq == pLit(s, k.pos, <<"=">>) IN
    IF eq.st # "ok" THEN eq
    ELSE First2(option_number(s, eq.pos, k.toks[1].s),
                option_word(s, eq.pos, k.toks[1].s))

\* option, line 498: a weight, the number's lexeme mapped to float, then str
option_weight(s, i) ==
    LET n == parser_element("number", s, i) IN
    IF n.st # "ok" THEN n
    ELSE PR(n.pos, <<OptionTok(FloatStr(SubSeq(s, SkipWS(s, i), n.pos - 1)),
                               1, StrVal(<<>>))>>)

\* option, line 499: a flag
option_flag(s, i) ==
    LET k == pWord(s, i) IN
    IF k.st # "ok" THEN k
    ELSE PR(k.pos, <<OptionTok(k.toks[1].s, 1, StrVal(<<>>))>>)

\* option, lines 496-500
option(s, i) ==
    First3(option_value(s, i), option_weight(s, i), option_flag(s, i))

\* comma + option
comma_option(s, i) ==
    LET c == pLit(s, i, <<",">>) IN
    IF c.st # "ok" THEN c ELSE parser_element("option", s, c.pos)

\* pp.ZeroOrMore(comma + option)
RECURSIVE more_options(_, _, _)
more_options(s, i, toks) ==
    LET o == comma_option(s, i) IN
    IF o.st = "ok" THEN more_options(s, o.pos, toks \o o.toks)
    ELSE PR(i, toks)

\* options, line 501
options(s, i) ==
    LET o == parser_element("option", s, i) IN
    IF o.st = "ok" THEN more_options(s, o.pos, o.toks) ELSE PR(i, <<>>)

\* x.as_dict(): the names pp.Dict gives the option groups, the last one of
\* a repeated key staying
RECURSIVE as_dict_from(_, _, _)
as_dict_from(opts, i, d) ==
    IF i > Len(opts) THEN d
    ELSE as_dict_from(opts, i + 1,
            DictUpdate(d, [k \in {opts[i].first} |-> opts[i].val]))

as_dict(opts) == as_dict_from(opts, 1, EmptyDict)

\* float() of a string that r was read from: all of it must have been read
FullFloat(cs, r) ==
    IF r.st = "ok" /\ r.pos = Len(cs) + 1 THEN Ok(r.toks[1].v)
    ELSE Raise("ValueError")

\* float(w[0]) for the first token of an option group: Python's float() of
\* a string (exponents, inf, nan and digit-separating underscores, which
\* float() also reads, are in no string of the model)
FloatOfStr(cs) ==
    FullFloat(cs, IF RealEnd(cs, 1 + SignAt(cs, 1)) = Len(cs) + 1
                  THEN RealAt(cs, 1) ELSE IntegerAt(cs, 1))

\* line 384: weights = [float(w[0]) for w in x[2]]
RECURSIVE blend_weights_from(_, _, _)
blend_weights_from(opts, i, ws) ==
    IF i > Len(opts) THEN Ok(ws)
    ELSE LET f == FloatOfStr(opts[i].first) IN
         IF f.st = "ok" THEN blend_weights_from(opts, i + 1, Append(ws, f.val))
         ELSE f

\* make_operator, lines 380-381: operator == '.swap'
make_swap(target, arguments, opts) ==
    IF SubstituteRaises(as_dict(opts)) THEN Raise("TypeError")
    ELSE Ok(CrossAttentionControlSubstitute(target, arguments, as_dict(opts)))

\* line 383: prompts = [Prompt(p) for p in x[0]]
blend_prompts(groups) == [i \in 1..Len(groups) |-> Prompt(groups[i].items)]

\* line 385: Blend(prompts=prompts, weights=weights), weights an outcome
blend_of(prompts, weights) ==
    IF weights.st # "ok" THEN weights ELSE Blend(prompts, weights.val, TRUE)

\* make_operator, lines 382-385: operator == '.blend'; groups are the
\* groups of x[0], opts the option groups of x[2]
make_blend(groups, opts) ==
    blend_of(blend_prompts(groups), blend_weights_from(opts, 1, <<>>))

\* the outcome of a parse action at the end of a match: the token it
\* returned, or the exception it raised
ParseAction(pos, outcome) ==
    IF outcome.st = "ok" THEN PR(pos, <<outcome.val>>) ELSE PX(outcome.exc)

\* the replacement group of cross_attention_substitute, line 511
ca_replacement(s, i) ==
    First3(parser_element("quoted_fragment", s, i),
           parser_element("parenthesized_fragment", s, i),
           First3(parser_element("attention", s, i),
                  parser_element("restricted_fragment", s, i),
                  PR(i, <<>>)))

\* pp.Optional(comma + options), line 512
ca_options(s, i) ==
    LET c == pLit(s, i, <<",">>) IN
    IF c.st = "ok" THEN parser_element("options", s, c.pos) ELSE PR(i, <<>>)

dot_swap == <<".", "s", "w", "a", "p">>
dot_blend == <<".", "b", "l", "e", "n", "d">>

\* cross_attention_substitute, lines 507-517
cross_attention_substitute(s, i) ==
    LET t == parser_element("potential_target_fragment", s, i) IN
    IF t.st # "ok" THEN t
    ELSE LET op == pLit(s, t.pos, dot_swap) IN
    IF op.st # "ok" THEN PF
    ELSE LET lp == pLit(s, op.pos, <<"(">>) IN
    IF lp.st # "ok" THEN PF
    ELSE LET r == ca_replacement(s, lp.pos) IN
    IF r.st # "ok" THEN r
    ELSE LET o == ca_options(s, r.pos) IN
    IF o.st # "ok" THEN o
    ELSE LET rp == pLit(s, o.pos, <<")">>) IN
    IF rp.st # "ok" THEN PF
    ELSE ParseAction(rp.pos, make_swap(t.toks, r.toks, o.toks))

\* one target of blend, line 521: pp.Group(potential_target_fragment | quoted_prompt)
blend_target(s, i) ==
    LET t == First2(parser_element("potential_target_fragment", s, i),
                    parser_element("quoted_prompt", s, i)) IN
    IF t.st = "ok" THEN PR(t.pos, <<Group(t.toks)>>) ELSE t

\* comma + pp.Group(potential_target_fragment | quoted_prompt), line 521
comma_blend_target(s, i) ==
    LET c == pLit(s, i, <<",">>) IN
    IF c.st # "ok" THEN c ELSE blend_target(s, c.pos)

\* line 521: pp.ZeroOrMore(comma + pp.Group(...))
RECURSIVE more_blend_targets(_, _, _)
more_blend_targets(s, i, toks) ==
    LET t == comma_blend_target(s, i) IN
    IF t.st = "ok" THEN more_blend_targets(s, t.pos, toks \o t.toks)
    ELSE IF t.st = "raise" THEN t
    ELSE PR(i, toks)

\* the bl-target group of blend, line 521
blend_targets(s, i) ==
    LET t1 == blend_target(s, i) IN
    IF t1.st # "ok" THEN t1 ELSE more_blend_targets(s, t1.pos, t1.toks)

\* blend, lines 519-530
blend(s, i) ==
    LET lp == pLit(s, i, <<"(">>) IN
    IF lp.st # "ok" THEN PF
    ELSE LET ts == blend_targets(s, lp.pos) IN
    IF ts.st # "ok" THEN ts
    ELSE LET rp == pLit(s, ts.pos, <<")">>) IN
    IF rp.st # "ok" THEN PF
    ELSE LET op == pLit(s, rp.pos, dot_blend) IN
    IF op.st # "ok" THEN PF
    ELSE LET lp2 == pLit(s, op.pos, <<"(">>) IN
    IF lp2.st # "ok" THEN PF
    ELSE LET o == parser_element("options", s, lp2.pos) IN
    IF o.st # "ok" THEN o
    ELSE LET rp2 == pLit(s, o.pos, <<")">>) IN
    IF rp2.st # "ok" THEN PF
    ELSE ParseAction(rp2.pos, make_blend(ts.toks, o.toks))

\* one element of prompt, lines 558-566
prompt_item(s, i) ==
    First3(parser_element("cross_attention_substitute", s, i),
           parser_element("attention", s, i),
           First3(parser_element("quoted_fragment", s, i),
                  parser_element("parenthesized_fragment", s, i),
                  First2(parser_element("unrestricted_word", s, i),
                         pWhite(s, i))))

\* prompt = pp.ZeroOrMore(...)
RECURSIVE prompt_from(_, _, _)
prompt_from(s, i, toks) ==
    LET r == prompt_item(s, i) IN
    IF r.st = "ok" THEN prompt_from(s, r.pos, toks \o r.toks)
    ELSE IF r.st = "raise" THEN r
    ELSE PR(i, toks)

prompt(s, i) == prompt_from(s, i, <<>>)

\* pp.Group(prompt), line 571
prompt_group(s, i) ==
    LET g == parser_element("prompt", s, i) IN
    IF g.st # "ok" THEN g ELSE PR(g.pos, <<Prompt(g.toks)>>)

\* pp.StringEnd() after skipping whitespace
AtStringEnd(s, i) == SkipWS(s, i) > Len(s)

parser_element(name, s, i) ==
    CASE name = "number" -> number(s, i)
      [] name = "restricted_word" -> restricted_word(s, i)
      [] name = "restricted_fragment" -> restricted_fragment(s, i)
      [] name = "unrestricted_word" -> unrestricted_word(s, i)
      [] name = "quoted_fragment" -> quoted_fragment(s, i)
      [] name = "quoted_prompt" -> quoted_prompt(s, i)
      [] name = "parenthesized_fragment" -> parenthesized_fragment(s, i)
      [] name = "potential_target_fragment" -> potential_target_fragment(s, i)
      [] name = "fragment" -> fragment(s, i)
      [] name = "attention" -> attention(s, i)
      [] name = "option" -> option(s, i)
      [] name = "options" -> options(s, i)
      [] name = "cross_attention_substitute" -> cross_attention_substitute(s, i)
      [] name = "blend" -> blend(s, i)
      [] name = "prompt" -> prompt(s, i)

\* conjunction.parse_string(prompt), line 272: r is the match of
\* blend | pp.Group(prompt); the parse action's Conjunction, or the exception
parse_string(s, r) ==
    IF r.st = "raise" THEN Raise(r.exc)
    ELSE IF r.st = "ok" /\ AtStringEnd(s, r.pos) THEN Ok(Conjunction(r.toks))
    ELSE Raise("ParseException")

\* conjunction, lines 571-572
conjunction(s) ==
    parse_string(s, First2(parser_element("blend", s, 1), prompt_group(s, 1)))

EmptyConjunction == Conjunction(<<FlattenedPrompt(<<Fragment(<<>>, One)>>)>>)

\* self.flatten(root[0]), line 277, root the outcome of parse_string
flatten_root(root) == IF root.st # "ok" THEN root ELSE flatten(root.val)

\* PromptParser.parse_conjunction
parse_conjunction(s) ==
    IF IsBlank(s) THEN Ok(EmptyConjunction) ELSE flatten_root(conjunction(s))

----------------------------------------------------------------------------
(* Legacy blends: split_weighted_subprompts reads "text:weight text:weight" *)
(* with a regular expression; parse_legacy_blend parses each text and      *)
(* blends the results.                                                     *)

\* x / y for y # 0
Quotient(x, y) ==
    IF y[1] > 0 THEN Rat(x[1] * y[2], x[2] * y[1])
    ELSE Rat(0 - x[1] * y[2], x[2] * (0 - y[1]))

\* (?:\\:|[^:])+ from position i: the end of the greedy run of escaped
\* colons and of characters other than ':' (i itself when there is none)
RECURSIVE PromptEnd(_, _)
PromptEnd(text, i) ==
    IF i > Len(text) THEN i
    ELSE IF MatchesAt(text, i, <<BS, ":">>) THEN PromptEnd(text, i + 2)
    ELSE IF text[i] # ":" THEN PromptEnd(text, i + 1)
    ELSE i

\* -?\d+(?:\.\d+)? with its integer digits running from a to ie: the end of
\* the weight, or i when there is no digit (the group is optional)
WeightEndFrom(text, i, a, ie) ==
    IF ie = a THEN i
    ELSE IF MatchesAt(text, ie, <<".">>) /\ RunEnd(text, ie + 1, Digits) > ie + 1
    THEN RunEnd(text, ie + 1, Digits)
    ELSE ie

WeightEndAfter(text, i, a) == WeightEndFrom(text, i, a, RunEnd(text, a, Digits))

WeightEnd(text, i) ==
    WeightEndAfter(text, i, IF MatchesAt(text, i, <<"-">>) THEN i + 1 ELSE i)

\* float(match.group("weight") or 1) for the weight text[c..w-1]
WeightOf(text, c, w) ==
    IF w = c THEN One ELSE FloatOfStr(SubSeq(text, c, w - 1)).val

\* a faulty variant of SubpromptOf: the escaped colons are left as typed
SubpromptEscaped(text, i, e, c, w) ==
    <<SubSeq(text, i, e - 1), WeightOf(text, c, w)>>

\* the pair of one match: the prompt text[i..e-1] with \: replaced by ':'
SubpromptOf(text, i, e, c, w) ==
    <<Replace(SubSeq(text, i, e - 1), <<BS, ":">>, <<":">>), WeightOf(text, c, w)>>

\* re.finditer from position i: where no prompt starts the scan moves on one
\* character; a prompt is followed by ':'+, the optional weight and \s*, or
\* by the end of the text
RECURSIVE finditer_from(_, _, _)
match_from(text, i, e, c, acc) ==
    IF e > Len(text) THEN Append(acc, SubpromptOf(text, i, e, e, e))
    ELSE finditer_from(text, RunEnd(text, WeightEnd(text, c), StringWhitespace),
                       Append(acc, SubpromptOf(text, i, e, c, WeightEnd(text, c))))

finditer_from(text, i, acc) ==
    IF i > Len(text) THEN acc
    ELSE IF PromptEnd(text, i) = i THEN finditer_from(text, i + 1, acc)
    ELSE match_from(text, i, PromptEnd(text, i),
                    RunEnd(text, PromptEnd(text, i), {":"}), acc)

\* lines 601-602
parsed_prompts(text) == finditer_from(text, 1, <<>>)

\* sum(map(lambda x: x[1], parsed_prompts))
RECURSIVE weight_sum_from(_, _)
weight_sum_from(parsed, i) ==
    IF i > Len(parsed) THEN Zero
    ELSE Add(parsed[i][2], weight_sum_from(parsed, i + 1))

\* a faulty variant of normalized: a zero sum is divided by like any other
normalized_no_fallback(parsed, weight_sum) ==
    [i \in 1..Len(parsed) |->
        <<parsed[i][1],
          IF weight_sum = Zero THEN Zero ELSE Quotient(parsed[i][2], weight_sum)>>]

\* a faulty variant of normalized: the raw weights are kept
normalized_raw(parsed, weight_sum) ==
    IF weight_sum = Zero
    THEN [i \in 1..Len(parsed) |-> <<parsed[i][1], Quotient(One, <<Len(parsed), 1>>)>>]
    ELSE parsed

\* lines 605-610; Len(parsed) stands for max(len(parsed_prompts), 1) where
\* the list is not empty
normalized(parsed, weight_sum) ==
    IF weight_sum = Zero
    THEN [i \in 1..Len(parsed) |-> <<parsed[i][1], Quotient(One, <<Len(parsed), 1>>)>>]
    ELSE [i \in 1..Len(parsed) |-> <<parsed[i][1], Quotient(parsed[i][2], weight_sum)>>]

split_weighted_subprompts(text, skip_normalize) ==
    IF skip_normalize THEN parsed_prompts(text)
    ELSE normalized(parsed_prompts(text), weight_sum_from(parsed_prompts(text), 1))

\* lines 285-288: the list comprehension stops at the first text whose parse
\* raises
legacy_blend_of(weighted_subprompts, parsed_conjunctions) ==
    IF \E i \in 1..Len(parsed_conjunctions) : parsed_conjunctions[i].st # "ok"
    THEN parsed_conjunctions[CHOOSE i \in 1..Len(parsed_conjunctions) :
            /\ parsed_conjunctions[i].st # "ok"
            /\ \A j \in 1..(i - 1) : parsed_conjunctions[j].st = "ok"]
    ELSE Blend([i \in 1..Len(parsed_conjunctions) |->
                    parsed_conjunctions[i].val.prompts[1]],
               [i \in 1..Len(weighted_subprompts) |-> weighted_subprompts[i][2]],
               TRUE)

\* a faulty variant of legacy_blend: one sub-prompt is blended as well
legacy_blend_single(weighted_subprompts) ==
    IF Len(weighted_subprompts) < 1 THEN None
    ELSE legacy_blend_of(weighted_subprompts,
            [i \in 1..Len(weighted_subprompts) |->
                parse_conjunction(weighted_subprompts[i][1])])

\* lines 280-288
legacy_blend(weighted_subprompts) ==
    IF Len(weighted_subprompts) <= 1 THEN None
    ELSE legacy_blend_of(weighted_subprompts,
            [i \in 1..Len(weighted_subprompts) |->
                parse_conjunction(weighted_subprompts[i][1])])

parse_legacy_blend(text) == legacy_blend(split_weighted_subprompts(text, FALSE))

----------------------------------------------------------------------------
(* Driver 1: a caller builds a Prompt tree with the constructors of the    *)
(* tree model, then hands Conjunction([Prompt]) to PromptParser.flatten.   *)
(* The trees are those the grammar can build and more: Attention and       *)
(* CrossAttentionControlSubstitute nest freely, except that a substitute   *)
(* holds no other substitute (no production of the grammar nests them).    *)

\* texts of the leaves; the last one is the three characters \\( as typed
LeafTexts == {<<"a">>, <<"b">>, <<BS, BS, "(">>}
LeafWeights == {One, <<2, 1>>}
\* leaves of the second family of trees; the last one is the four
\* characters \\\( as typed, which a Fragment stores as \\(
EscapedLeafTexts == {<<"a">>, <<BS, BS, BS, "(">>}
AttentionWeights == {<<2, 1>>, <<1, 2>>}
SubstituteOptions ==
    {EmptyDict, [k \in {k_shape_freedom} |-> NumVal(<<1, 8>>)],
     [k \in {k_shape_freedom, k_s_end} |->
        IF k = k_s_end THEN NumVal(One) ELSE NumVal(<<1, 8>>)]}

\* an open constructor call: the children collected so far
Frame(kind, weight, items, original, opts) ==
    [kind |-> kind, weight |-> weight, items |-> items,
     original |-> original, options |-> opts]

PromptFrame == Frame("Prompt", One, <<>>, <<>>, EmptyDict)

Top == stack[Len(stack)]

\* the stack with node x appended to the children of the innermost open call
Pushed(stk, x) ==
    [stk EXCEPT ![Len(stk)] = [@ EXCEPT !.items = Append(@, x)]]

InSubstitute == \E i \in 1..Len(stack) : stack[i].kind \in {"Original", "Edited"}

InitTree ==
    /\ pc = "build"
    /\ stack = <<PromptFrame>>
    /\ nodes = 0
    /\ out = None
    /\ alphabet = "none"
    /\ input = <<>>
    /\ npieces = 0
    /\ result = None

\* the texts this caller's leaves are drawn from
TreeLeafTexts ==
    IF alphabet = "escaped leaves" THEN EscapedLeafTexts ELSE LeafTexts

AddFragment ==
    /\ pc = "build"
    /\ nodes < MaxNodes
    /\ \E text \in TreeLeafTexts, weight \in LeafWeights :
          stack' = Pushed(stack, Fragment(text, weight))
    /\ nodes' = nodes + 1
    /\ UNCHANGED <<pc, out, alphabet, input, npieces, result>>

OpenAttention ==
    /\ pc = "build"
    /\ nodes < MaxNodes
    /\ \E weight \in AttentionWeights :
          stack' = Append(stack, Frame("Attention", weight, <<>>, <<>>, EmptyDict))
    /\ nodes' = nodes + 1
    /\ UNCHANGED <<pc, out, alphabet, input, npieces, result>>

CloseAttention ==
    /\ pc = "build"
    /\ Top.kind = "Attention"
    /\ stack' = Pushed(Front(stack), Attention(Top.weight, Top.items))
    /\ UNCHANGED <<pc, nodes, out, alphabet, input, npieces, result>>

OpenSubstitute ==
    /\ pc = "build"
    /\ nodes < MaxNodes
    /\ ~InSubstitute
    /\ \E opts \in SubstituteOptions :
          stack' = Append(stack, Frame("Original", One, <<>>, <<>>, opts))
    /\ nodes' = nodes + 1
    /\ UNCHANGED <<pc, out, alphabet, input, npieces, result>>

\* the original list is complete; the edited list follows
CloseOriginal ==
    /\ pc = "build"
    /\ Top.kind = "Original"
    /\ stack' = Append(Front(stack),
                       Frame("Edited", One, <<>>, Top.items, Top.options))
    /\ UNCHANGED <<pc, nodes, out, alphabet, input, npieces, result>>

CloseSubstitute ==
    /\ pc = "build"
    /\ Top.kind = "Edited"
    /\ stack' = Pushed(Front(stack),
                       CrossAttentionControlSubstitute(Top.original, Top.items,
                                                       Top.options))
    /\ UNCHANGED <<pc, nodes, out, alphabet, input, npieces, result>>

\* the tree handed to flatten once every constructor call is closed
BuiltPrompt == Prompt(stack[1].items)

Flatten ==
    /\ pc = "build"
    /\ Len(stack) = 1
    /\ out' = flatten(Conjunction(<<BuiltPrompt>>))
    /\ pc' = "flattened"
    /\ UNCHANGED <<stack, nodes, alphabet, input, npieces, result>>

\* Blend(prompts=[prompt], weights=[1.0]) on the built Prompt
BlendBuilt ==
    /\ pc = "build"
    /\ Len(stack) = 1
    /\ out' = Blend(<<BuiltPrompt>>, <<One>>, TRUE)
    /\ pc' = "blended"
    /\ UNCHANGED <<stack, nodes, alphabet, input, npieces, result>>

NextTree ==
    \/ AddFragment
    \/ OpenAttention
    \/ CloseAttention
    \/ OpenSubstitute
    \/ CloseOriginal
    \/ CloseSubstitute
    \/ Flatten
    \/ BlendBuilt

SpecTree == InitTree /\ [][NextTree]_vars

\* the same caller, building its trees from EscapedLeafTexts
InitEscapedTree ==
    /\ pc = "build"
    /\ stack = <<PromptFrame>>
    /\ nodes = 0
    /\ out = None
    /\ alphabet = "escaped leaves"
    /\ input = <<>>
    /\ npieces = 0
    /\ result = None
SpecEscapedTree == InitEscapedTree /\ [][NextTree]_vars

\* a caller that hands the Conjunction flatten returned to flatten again
FlattenAgain ==
    /\ pc = "flattened"
    /\ out.st = "ok"
    /\ result' = flatten(out.val)
    /\ pc' = "flattened twice"
    /\ UNCHANGED <<stack, nodes, out, alphabet, input, npieces>>

NextTwice ==
    \/ NextTree
    \/ FlattenAgain

SpecTwice == InitEscapedTree /\ [][NextTwice]_vars

(***************************************************************************)
(* _get_conditioning_for_cross_attention_control                           *)
(* (src/ldm/invoke/conditioning.py), up to the edit opcodes and options it *)
(* hands to cross_attention_control.Arguments.                             *)
(***************************************************************************)

\* get_token_ids(fragment_texts, include_start_and_end_markers=False) for
\* one text: the tokenizer is the model's; here every word is one token
token_ids(text) ==
    IF text = <<>> THEN <<>> ELSE [k \in 1..(1 + Cardinality({j \in 1..Len(text) : text[j] = " "})) |->
            "token"]

\* _get_tokens_length, lines 222-225
RECURSIVE get_tokens_length(_)
get_tokens_length(fragments) ==
    IF fragments = <<>> THEN 0
    ELSE Len(token_ids(Head(fragments).text)) + get_tokens_length(Tail(fragments))

\* the names the loop keeps, lines 111-114
EditState(edit_opcodes, edit_options, original_token_count, edited_token_count) ==
    [edit_opcodes |-> edit_opcodes, edit_options |-> edit_options,
     original_token_count |-> original_token_count,
     edited_token_count |-> edited_token_count]

\* a faulty variant of replaced: the edited side advances by the length of
\* the original
replaced_by_original(e, to_replace_token_count, replacement_token_count, opts) ==
    EditState(
        Append(e.edit_opcodes,
               <<"replace",
                 e.original_token_count,
                 e.original_token_count + to_replace_token_count,
                 e.edited_token_count,
                 e.edited_token_count + replacement_token_count>>),
        Append(e.edit_options, Ok(opts)),
        e.original_token_count + to_replace_token_count,
        e.edited_token_count + to_replace_token_count)

\* lines 128-134: the opcode and options of a substitute
replaced(e, to_replace_token_count, replacement_token_count, opts) ==
    EditState(
        Append(e.edit_opcodes,
               <<"replace",
                 e.original_token_count,
                 e.original_token_count + to_replace_token_count,
                 e.edited_token_count,
                 e.edited_token_count + replacement_token_count>>),
        Append(e.edit_options, Ok(opts)),
        e.original_token_count + to_replace_token_count,
        e.edited_token_count + replacement_token_count)

\* lines 116-120, 143-147 and 149-153: an 'equal' opcode over count tokens
equal(e, count) ==
    EditState(
        Append(e.edit_opcodes,
               <<"equal",
                 e.original_token_count, e.original_token_count + count,
                 e.edited_token_count, e.edited_token_count + count>>),
        Append(e.edit_options, None),
        e.original_token_count + count,
        e.edited_token_count + count)

\* lines 121-147: the loop over prompt.children from index i on
RECURSIVE edit_from(_, _, _)
edit_from(children, i, e) ==
    IF i > Len(children) THEN e
    ELSE IF children[i].type = "CrossAttentionControlSubstitute"
    THEN edit_from(children, i + 1,
                   replaced(e, get_tokens_length(children[i].original),
                            get_tokens_length(children[i].edited),
                            children[i].options))
    ELSE edit_from(children, i + 1, equal(e, get_tokens_length(<<children[i]>>)))

\* the edit_opcodes and edit_options of the Arguments returned
get_conditioning_for_cross_attention_control(self) ==
    equal(edit_from(self.children, 1, equal(EditState(<<>>, <<>>, 0, 0), 1)), 1)

----------------------------------------------------------------------------
(* Driver 3: a caller appends Fragments and substitutes to a               *)
(* FlattenedPrompt and reads its is_empty property.                        *)

\* the children appended
FlatItems ==
    {Fragment(<<>>, One), Fragment(<<"a">>, One), Fragment(<<"a">>, <<2, 1>>),
     CrossAttentionControlSubstitute(<<Fragment(<<"a">>, One)>>,
                                     <<Fragment(<<"b">>, One)>>, EmptyDict),
     CrossAttentionControlSubstitute(<<>>, <<>>, EmptyDict),
     Fragment(<<"a", " ", "b">>, One),
     CrossAttentionControlSubstitute(
         <<Fragment(<<"a">>, One)>>, <<Fragment(<<"a", " ", "b">>, One)>>,
         [k \in {k_shape_freedom} |-> NumVal(<<1, 8>>)])}

InitFlat ==
    /\ pc = "append"
    /\ stack = <<>>
    /\ nodes = 0
    /\ out = None
    /\ alphabet = "none"
    /\ input = <<>>
    /\ npieces = 0
    /\ result = None

\* FlattenedPrompt.append(fragment), lines 52-53
AppendChild ==
    /\ pc = "append"
    /\ nodes < MaxNodes
    /\ \E child \in FlatItems : stack' = Append(stack, child)
    /\ nodes' = nodes + 1
    /\ UNCHANGED <<pc, out, alphabet, input, npieces, result>>

IsEmpty ==
    /\ pc = "append"
    /\ out' = is_empty(FlattenedPrompt(stack))
    /\ pc' = "is_empty"
    /\ UNCHANGED <<stack, nodes, alphabet, input, npieces, result>>

\* conditioning.py: the prompt is handed on for cross-attention control
GetConditioning ==
    /\ pc = "append"
    /\ out' = Ok(get_conditioning_for_cross_attention_control(FlattenedPrompt(stack)))
    /\ pc' = "conditioning"
    /\ UNCHANGED <<stack, nodes, alphabet, input, npieces, result>>

NextFlat ==
    \/ AppendChild
    \/ IsEmpty
    \/ GetConditioning

SpecFlat == InitFlat /\ [][NextFlat]_vars

----------------------------------------------------------------------------
(* Driver 2: a caller types a prompt string piece by piece from one of the *)
(* alphabets below, then calls PromptParser().parse_conjunction on it.     *)

\* plain text: letters, whitespace, a backslash
WordPieces == {<<"a">>, <<"b">>, <<" ">>, <<"\t">>, <<"\f">>, <<BS>>}

\* attention syntax: words, parentheses, signs, numbers
AttentionPieces ==
    {<<"a">>, <<"b">>, <<" ">>, <<"(">>, <<")">>, <<"+">>, <<"-">>, <<"2">>, <<".">>}

\* escapes: words, parentheses, quotes, the backslash
EscapePieces == {<<"a">>, <<" ">>, <<"(">>, <<")">>, <<"\"">>, <<BS>>}

\* operators: a quoted prompt in an open group, the two operator names,
\* a weight, a flag, a word, separators
OperatorPieces ==
    {<<"(", "\"", "a", "\"">>, <<")">> \o dot_blend \o <<"(">>,
     dot_swap \o <<"(">>, <<"1">>, <<"n">>, <<"a">>, <<",">>, <<")">>, <<" ">>}

\* blends: the opening of one or two quoted prompts (a word, a blank, two
\* words with a comma between them), the operator with a first weight, a
\* further weight, the no_normalize flag, the closing parenthesis
BlendPieces ==
    {<<"(", "\"", "a", "\"">>,
     <<"(", "\"", "a", "\"", ",", "\"", "b", "\"">>,
     <<"(", "\"", "a", "\"", ",", "\"", " ", "\"">>,
     <<"(", "\"", "a", ",", "b", "\"">>,
     <<")">> \o dot_blend \o <<"(", "1">>,
     <<",", "2">>,
     <<",", "n", "o", "_", "n", "o", "r", "m", "a", "l", "i", "z", "e", ")">>,
     <<")">>}

\* swaps: a word, the opening of a swap of a word or of a quoted target, alone
\* or after a word, a replacement, two options, the closing parenthesis alone
\* or before a word
SwapPieces ==
    {<<"a">> \o dot_swap \o <<"(">>,
     <<"c", " ", "a">> \o dot_swap \o <<"(">>,
     <<"\"", "a", " ", "b", "\"">> \o dot_swap \o <<"(">>,
     <<"b">>,
     <<",">> \o k_t_start \o <<"=", "1">>,
     <<",">> \o k_s_end \o <<"=", "1">>,
     <<")">>,
     <<")", " ", "d">>}

\* an operator name the grammar does not know, after a word or a quoted
\* target
OtherOperatorPieces ==
    {<<"a">>, <<"\"", "a", "\"">>, <<".", "f", "o", "o", "(">>,
     dot_swap \o <<"(">>, <<"b">>, <<")">>}

\* legacy blends: sub-prompts with their weights, words, a colon, an
\* escaped colon, a sub-prompt that holds a swap
LegacyPieces ==
    {<<"a", ":", "1", " ">>, <<"b", ":", "-", "1", " ">>, <<"b", ":", "2", " ">>,
     <<"a">>, <<":">>, <<BS, ":">>,
     <<"a">> \o dot_swap \o <<"(", "b", ")", ":", "1", " ">>}

Pieces(name) ==
    CASE name = "words" -> WordPieces
      [] name = "attention" -> AttentionPieces
      [] name = "escapes" -> EscapePieces
      [] name = "operators" -> OperatorPieces
      [] name = "blends" -> BlendPieces
      [] name = "swaps" -> SwapPieces
      [] name = "other operator" -> OtherOperatorPieces
      [] name = "legacy" -> LegacyPieces
      [] OTHER -> {}

InitTyping(name) ==
    /\ pc = "typing"
    /\ stack = <<>>
    /\ nodes = 0
    /\ out = None
    /\ alphabet = name
    /\ input = <<>>
    /\ npieces = 0
    /\ result = None

Type ==
    /\ pc = "typing"
    /\ npieces < MaxPieces
    /\ \E piece \in Pieces(alphabet) : input' = input \o piece
    /\ npieces' = npieces + 1
    /\ UNCHANGED <<pc, stack, nodes, out, alphabet, result>>

Parse ==
    /\ pc = "typing"
    /\ result' = parse_conjunction(input)
    /\ pc' = "parsed"
    /\ UNCHANGED <<stack, nodes, out, alphabet, input, npieces>>

NextTyping ==
    \/ Type
    \/ Parse

\* a caller hands a text of the legacy alphabet to parse_legacy_blend
ParseLegacy ==
    /\ pc = "typing"
    /\ alphabet = "legacy"
    /\ result' = parse_legacy_blend(input)
    /\ pc' = "legacy parsed"
    /\ UNCHANGED <<stack, nodes, out, alphabet, input, npieces>>

\* a caller of split_weighted_subprompts itself
SplitSubprompts ==
    /\ pc = "typing"
    /\ alphabet = "legacy"
    /\ \E skip_normalize \in BOOLEAN :
          /\ result' = Ok(split_weighted_subprompts(input, skip_normalize))
          /\ pc' = IF skip_normalize THEN "split raw" ELSE "split"
    /\ UNCHANGED <<stack, nodes, out, alphabet, input, npieces>>

NextLegacy ==
    \/ Type
    \/ ParseLegacy
    \/ SplitSubprompts

SpecWords == InitTyping("words") /\ [][NextTyping]_vars
SpecAttention == InitTyping("attention") /\ [][NextTyping]_vars
SpecEscapes == InitTyping("escapes") /\ [][NextTyping]_vars
SpecOperators == InitTyping("operators") /\ [][NextTyping]_vars
SpecBlends == InitTyping("blends") /\ [][NextTyping]_vars
SpecSwaps == InitTyping("swaps") /\ [][NextTyping]_vars
SpecOtherOperator == InitTyping("other operator") /\ [][NextTyping]_vars
SpecLegacy == InitTyping("legacy") /\ [][NextLegacy]_vars

\* both drivers
(***************************************************************************)
(* WeightedFrozenCLIPEmbedder.forward (src/ldm/modules/encoders/modules.py) *)
(* up to the two lists it turns into tensors. A fragment is the sequence   *)
(* of vocabulary tokens its text stands for.                               *)
(***************************************************************************)

\* self.max_length: 77 in the code, small here so that prompts overflow
max_length == 5

bos_token_id == "bos"
eos_token_id == "eos"

\* self.tokenizer(..., truncation=True, max_length=self.max_length,
\* padding='do_not_pad'), lines 484-491: the markers around at most
\* max_length - 2 tokens
tokenizer(words) ==
    <<bos_token_id>>
        \o SubSeq(words, 1, IF Len(words) > max_length - 2
                            THEN max_length - 2 ELSE Len(words))
        \o <<eos_token_id>>

\* line 502: per_token_weights.extend([weight] * (len(fragment_tokens) - 2))
extended_weights(per_token_weights, w, fragment_tokens) ==
    per_token_weights \o [k \in 1..(Len(fragment_tokens) - 2) |-> w]

\* lines 495-502: the loop over the fragments' encodings from index on
RECURSIVE all_tokens_from(_, _, _)
all_tokens_from(item_encodings, index, all_tokens) ==
    IF index > Len(item_encodings) THEN all_tokens
    ELSE all_tokens_from(item_encodings, index + 1,
            all_tokens \o SubSeq(item_encodings[index], 2,
                                 Len(item_encodings[index]) - 1))

RECURSIVE per_token_weights_from(_, _, _, _)
per_token_weights_from(item_encodings, item_weights, index, per_token_weights) ==
    IF index > Len(item_encodings) THEN per_token_weights
    ELSE per_token_weights_from(item_encodings, item_weights, index + 1,
            extended_weights(per_token_weights, item_weights[index],
                             item_encodings[index]))

\* lines 504-506
truncated(all_tokens) ==
    IF Len(all_tokens) > max_length - 2
    THEN SubSeq(all_tokens, 1, max_length - 2)
    ELSE all_tokens

\* lines 510-514: bos in front and pad_length entries behind, on both lists
assembled(all_tokens, per_token_weights, pad_length) ==
    [tokens |-> <<bos_token_id>> \o all_tokens
                    \o [k \in 1..pad_length |-> eos_token_id],
     weights |-> <<One>> \o per_token_weights \o [k \in 1..pad_length |-> One]]

assembled_truncated(all_tokens, per_token_weights) ==
    assembled(all_tokens, per_token_weights, max_length - 1 - Len(all_tokens))

\* the body of the loop over the items, lines 483-514, for one item
forward_item(item_fragments, item_weights) ==
    assembled_truncated(
        truncated(all_tokens_from([i \in 1..Len(item_fragments) |->
                                      tokenizer(item_fragments[i])], 1, <<>>)),
        per_token_weights_from([i \in 1..Len(item_fragments) |->
                                   tokenizer(item_fragments[i])],
                               item_weights, 1, <<>>))

(***************************************************************************)
(* Driver 5: a caller collects the fragments of one prompt item with their *)
(* weights and hands them to WeightedFrozenCLIPEmbedder.forward. stack     *)
(* holds the pairs of fragment and weight, out the two assembled lists.    *)
(***************************************************************************)

\* the fragments: none, one, two and four tokens
ItemFragments == {<<>>, <<"x">>, <<"x", "y">>, <<"x", "y", "x", "y">>}
ItemWeights == {One, <<2, 1>>}

InitEmbedder ==
    /\ pc = "item"
    /\ stack = <<>>
    /\ nodes = 0
    /\ out = None
    /\ alphabet = "none"
    /\ input = <<>>
    /\ npieces = 0
    /\ result = None

AddItemFragment ==
    /\ pc = "item"
    /\ nodes < MaxNodes
    /\ \E words \in ItemFragments, w \in ItemWeights :
          stack' = Append(stack, <<words, w>>)
    /\ nodes' = nodes + 1
    /\ UNCHANGED <<pc, out, alphabet, input, npieces, result>>

Forward ==
    /\ pc = "item"
    /\ out' = Ok(forward_item([i \in 1..Len(stack) |-> stack[i][1]],
                              [i \in 1..Len(stack) |-> stack[i][2]]))
    /\ pc' = "forward"
    /\ UNCHANGED <<stack, nodes, alphabet, input, npieces, result>>

NextEmbedder ==
    \/ AddItemFragment
    \/ Forward

SpecEmbedder == InitEmbedder /\ [][NextEmbedder]_vars

(***************************************************************************)
(* Driver 4: a caller keeps one options dict and constructs one            *)
(* CrossAttentionControlSubstitute after the other from it. stack holds    *)
(* the substitutes constructed so far, result the dict as the caller made  *)
(* it and out the dict as the constructor calls have left it.              *)
(***************************************************************************)

SharedParts == {<<>>, <<Fragment(<<"a">>, One)>>, <<Fragment(<<"b">>, One)>>}

InitShared ==
    /\ pc = "construct"
    /\ stack = <<>>
    /\ nodes = 0
    /\ \E opts \in SubstituteOptions :
          /\ out = Ok(opts)
          /\ result = Ok(opts)
    /\ alphabet = "none"
    /\ input = <<>>
    /\ npieces = 0

ConstructSubstitute ==
    /\ pc = "construct"
    /\ nodes < MaxNodes
    /\ \E original_parts \in SharedParts \ {<<>>}, edited_parts \in SharedParts :
          stack' = Append(stack,
                          CrossAttentionControlSubstitute(original_parts,
                                                          edited_parts, out.val))
    /\ out' = Ok(OptionsAfterInit(out.val))
    /\ nodes' = nodes + 1
    /\ UNCHANGED <<pc, alphabet, input, npieces, result>>

NextShared == ConstructSubstitute

SpecShared == InitShared /\ [][NextShared]_vars

Init ==
    \/ InitTree
    \/ InitShared
    \/ InitEmbedder
    \/ InitEscapedTree
    \/ InitFlat
    \/ InitTyping("words")
    \/ InitTyping("attention")
    \/ InitTyping("escapes")
    \/ InitTyping("operators")
    \/ InitTyping("blends")
    \/ InitTyping("swaps")
    \/ InitTyping("other operator")
    \/ InitTyping("legacy")

Next ==
    \/ NextTree
    \/ FlattenAgain
    \/ NextShared
    \/ NextEmbedder
    \/ NextTyping
    \/ NextLegacy
    \/ NextFlat

Spec == Init /\ [][Next]_vars

----------------------------------------------------------------------------
(* Properties of flatten on built trees *)

WeightEntry(w) == [swap |-> FALSE, w |-> w, o |-> <<>>, e |-> <<>>]
SwapEntry(o, e) == [swap |-> TRUE, w |-> Zero, o |-> o, e |-> e]
BadEntry == [swap |-> FALSE, w |-> <<-1, 1>>, o |-> <<>>, e |-> <<>>]

\* adjacent equal weights, not separated by a substitute, read as one
RECURSIVE Runs(_)
Runs(es) ==
    IF Len(es) <= 1 THEN es
    ELSE LET rest == Runs(Tail(es)) IN
         IF ~es[1].swap /\ ~rest[1].swap /\ es[1].w = rest[1].w
         THEN rest ELSE <<es[1]>> \o rest

\* the weights the leaves of a tree are due, in depth-first order: the
\* leaf's own weight times the weights of the Attention nodes around it; a
\* substitute with no edited leaf shows the default empty Fragment
RECURSIVE DueWeights(_, _, _)
DueWeights(children, i, scale) ==
    IF i > Len(children) THEN <<>>
    ELSE LET c == children[i]
             here ==
                CASE c.type = "Fragment" -> <<WeightEntry(Mul(c.weight, scale))>>
                  [] c.type = "Attention" ->
                        DueWeights(c.children, 1, Mul(scale, c.weight))
                  [] c.type = "CrossAttentionControlSubstitute" ->
                        LET e == DueWeights(c.edited, 1, scale) IN
                        <<SwapEntry(Runs(DueWeights(c.original, 1, scale)),
                                    IF e = <<>> THEN <<WeightEntry(One)>>
                                    ELSE Runs(e))>>
                  [] OTHER -> <<BadEntry>>
         IN here \o DueWeights(children, i + 1, scale)

\* the weights of a flattened sequence; anything but a Fragment or a
\* substitute of Fragments is marked
RECURSIVE FlatWeights(_, _, _)
FlatWeights(children, i, depth) ==
    IF i > Len(children) THEN <<>>
    ELSE LET c == children[i]
             here ==
                CASE c.type = "Fragment" -> <<WeightEntry(c.weight)>>
                  [] c.type = "CrossAttentionControlSubstitute" /\ depth = 0 ->
                        <<SwapEntry(FlatWeights(c.original, 1, 1),
                                    FlatWeights(c.edited, 1, 1))>>
                  [] OTHER -> <<BadEntry>>
         IN here \o FlatWeights(children, i + 1, depth)

\* C1: flatten gives every Fragment leaf its own weight times the weights of
\* all the Attention nodes it is nested in, starting from scale 1, and splices
\* the children of an Attention inline: the weights of the flattened sequence
\* are the due weights of the leaves in depth-first order, fused neighbours
\* counting once, with no node other than Fragments and substitutes left.
C1_WeightComposition ==
    pc = "flattened" =>
        /\ out.st = "ok"
        /\ Len(out.val.prompts) = 1
        /\ out.val.prompts[1].type = "FlattenedPrompt"
        /\ FlatWeights(out.val.prompts[1].children, 1, 0)
              = Runs(DueWeights(BuiltPrompt.children, 1, One))

\* a leaf of weight 2 inside two nested Attentions of weight 2 came out at 8
C1_Witness ==
    /\ pc = "flattened"
    /\ \E i \in 1..Len(BuiltPrompt.children) :
          LET a == BuiltPrompt.children[i] IN
          /\ a.type = "Attention" /\ a.weight = <<2, 1>> /\ Len(a.children) = 1
          /\ a.children[1].type = "Attention" /\ a.children[1].weight = <<2, 1>>
          /\ Len(a.children[1].children) = 1
          /\ a.children[1].children[1].type = "Fragment"
          /\ a.children[1].children[1].weight = <<2, 1>>
    /\ out.st = "ok"
    /\ \E j \in 1..Len(out.val.prompts[1].children) :
          out.val.prompts[1].children[j].weight = <<8, 1>>

\* ' '.join
RECURSIVE JoinBySpace(_)
JoinBySpace(texts) ==
    IF Len(texts) = 0 THEN <<>>
    ELSE IF Len(texts) = 1 THEN texts[1]
    ELSE texts[1] \o <<" ">> \o JoinBySpace(Tail(texts))

\* the texts of the Fragment leaves of a tree, depth-first, left to right
RECURSIVE LeafTextsOf(_, _)
LeafTextsOf(children, i) ==
    IF i > Len(children) THEN <<>>
    ELSE LET c == children[i]
             here ==
                CASE c.type = "Fragment" -> <<c.text>>
                  [] c.type = "Attention" -> LeafTextsOf(c.children, 1)
                  [] c.type = "CrossAttentionControlSubstitute" ->
                        LeafTextsOf(c.original, 1) \o LeafTextsOf(c.edited, 1)
                  [] OTHER -> <<>>
         IN here \o LeafTextsOf(children, i + 1)

\* C2: flatten keeps the fragments in order: the texts of the flattened
\* prompt's fragments joined by single spaces equal the texts of the
\* Prompt's leaves, depth-first and left to right, joined by single spaces.
C2_OrderStable ==
    pc = "flattened" /\ out.st = "ok" =>
        JoinBySpace(LeafTextsOf(out.val.prompts[1].children, 1))
            = JoinBySpace(LeafTextsOf(BuiltPrompt.children, 1))

FlatChildOK(c) ==
    \/ c.type = "Fragment"
    \/ /\ c.type = "CrossAttentionControlSubstitute"
       /\ \A i \in 1..Len(c.original) : c.original[i].type = "Fragment"
       /\ \A i \in 1..Len(c.edited) : c.edited[i].type = "Fragment"

FlattenedOK(p) ==
    /\ p.type = "FlattenedPrompt"
    /\ \A i \in 1..Len(p.children) : FlatChildOK(p.children[i])

PartOK(p) ==
    \/ FlattenedOK(p)
    \/ /\ p.type = "Blend"
       /\ \A i \in 1..Len(p.prompts) : FlattenedOK(p.prompts[i])

ConjunctionOK(c) ==
    /\ c.type = "Conjunction"
    /\ \A i \in 1..Len(c.prompts) : PartOK(c.prompts[i])

----------------------------------------------------------------------------
(* Properties of parse_conjunction on typed strings *)

\* a Conjunction of one FlattenedPrompt with the given children
OnePrompt(children) ==
    [type |-> "Conjunction",
     prompts |-> <<[type |-> "FlattenedPrompt", children |-> children]>>,
     weights |-> <<One>>]

Frag(text, weight) == [type |-> "Fragment", text |-> text, weight |-> weight]

Chars(s) == {s[i] : i \in 1..Len(s)}

Whitespace == {" ", "\t", "\n", "\r", "\f"}

\* C4: for every input that is empty or only whitespace, parse_conjunction
\* returns a Conjunction of exactly one FlattenedPrompt holding the single
\* Fragment ('', 1.0), with weights [1.0].
C4_EmptyInput ==
    pc = "parsed" /\ Chars(input) \subseteq Whitespace =>
        result = Ok(OnePrompt(<<Frag(<<>>, One)>>))

\* two or more whitespace characters were parsed
C4_Witness ==
    /\ pc = "parsed"
    /\ Len(input) >= 2
    /\ Chars(input) \subseteq Whitespace
    /\ result.st = "ok"

\* C5 as stated: for every string s with no syntactic character,
\* parse_conjunction(s) is one FlattenedPrompt of one Fragment (s, 1.0).
C5_TextUnchanged ==
    pc = "parsed" /\ Chars(input) \cap syntactic_chars = {} =>
        result = Ok(OnePrompt(<<Frag(input, One)>>))

\* the words of s: the maximal runs of characters that are not whitespace
RECURSIVE WordsOf(_, _, _)
WordsOf(s, i, word) ==
    IF i > Len(s) THEN (IF word = <<>> THEN <<>> ELSE <<word>>)
    ELSE IF s[i] \in Whitespace
         THEN (IF word = <<>> THEN <<>> ELSE <<word>>) \o WordsOf(s, i + 1, <<>>)
         ELSE WordsOf(s, i + 1, Append(word, s[i]))

\* C5, amended: for every string s with no syntactic character and no form
\* feed, parse_conjunction(s) is one FlattenedPrompt of one Fragment of
\* weight 1.0 whose text is the words of s joined by single spaces (s itself
\* only when s has no leading, trailing or repeated whitespace and no
\* whitespace other than the space).
C5_WordsJoined ==
    pc = "parsed" /\ Chars(input) \cap (syntactic_chars \cup {"\f"}) = {} =>
        result = Ok(OnePrompt(<<Frag(JoinBySpace(WordsOf(input, 1, <<>>)), One)>>))

\* two words with a space and a tab between them were parsed
C5_Witness ==
    /\ pc = "parsed"
    /\ input = <<"a", " ", "\t", "b">>
    /\ result.st = "ok"
    /\ result.val.prompts[1].children[1].text = <<"a", " ", "b">>

\* s is a literal of number: all of it, with no leading whitespace
IsNumber(s) ==
    /\ Len(s) > 0
    /\ s[1] \notin WhiteChars
    /\ number(s, 1).st = "ok"
    /\ number(s, 1).pos = Len(s) + 1

IsWord(s) == Len(s) > 0 /\ Chars(s) \subseteq Alphas

\* C6: a numeric literal N immediately followed by a parenthesized group,
\* N(...), is an attention of weight N over the group: N(word) is one
\* FlattenedPrompt of the one Fragment (word, N).
C6_ExplicitWeight ==
    pc = "parsed" =>
        \A k \in 1..Len(input) :
            /\ IsNumber(SubSeq(input, 1, k))
            /\ k + 2 < Len(input)
            /\ input[k + 1] = "("
            /\ input[Len(input)] = ")"
            /\ IsWord(SubSeq(input, k + 2, Len(input) - 1))
            => result = Ok(OnePrompt(<<Frag(SubSeq(input, k + 2, Len(input) - 1),
                                            number(input, 1).toks[1].v)>>))

\* the length of the run of signs s starts with (0: s starts with no sign)
SignRun(s) ==
    IF Len(s) > 0 /\ s[1] \in {"+", "-"} THEN RunEnd(s, 1, {s[1]}) - 1 ELSE 0

SignBase(c) == IF c = "+" THEN <<11, 10>> ELSE <<9, 10>>

\* C7: a run of n signs immediately followed by a parenthesized group, or by
\* a single word with no parentheses, is an attention of weight base^n over
\* that group or word, and a following word keeps weight 1.0.
C7_SignRun ==
    pc = "parsed" /\ SignRun(input) > 0 =>
        LET n == SignRun(input)
            w == Pow(SignBase(input[1]), n)
            rest == SubSeq(input, n + 1, Len(input))
        IN /\ IsWord(rest) => result = Ok(OnePrompt(<<Frag(rest, w)>>))
           /\ /\ Len(rest) > 2
              /\ rest[1] = "("
              /\ rest[Len(rest)] = ")"
              /\ IsWord(SubSeq(rest, 2, Len(rest) - 1))
              => result = Ok(OnePrompt(<<Frag(SubSeq(rest, 2, Len(rest) - 1), w)>>))
           /\ \A k \in 2..(Len(rest) - 1) :
                 /\ IsWord(SubSeq(rest, 1, k - 1))
                 /\ rest[k] = " "
                 /\ IsWord(SubSeq(rest, k + 1, Len(rest)))
                 => result = Ok(OnePrompt(<<Frag(SubSeq(rest, 1, k - 1), w),
                                            Frag(SubSeq(rest, k + 1, Len(rest)), One)>>))

EscapedChars == {"(", ")", "\""}

\* whether an escape sequence \( , \) or \" starts at i
EscapeAt(s, i) == i < Len(s) /\ s[i] = BS /\ s[i + 1] \in EscapedChars

\* how many escape sequences of the character c there are in s from i on
RECURSIVE Escapes(_, _, _)
Escapes(s, i, c) ==
    IF i > Len(s) THEN 0
    ELSE IF EscapeAt(s, i)
         THEN (IF s[i + 1] = c THEN 1 ELSE 0) + Escapes(s, i + 2, c)
         ELSE Escapes(s, i + 1, c)

\* the characters of EscapedChars in s that no backslash escapes
RECURSIVE Unescaped(_, _)
Unescaped(s, i) ==
    IF i > Len(s) THEN <<>>
    ELSE IF EscapeAt(s, i) THEN Unescaped(s, i + 2)
    ELSE (IF s[i] \in EscapedChars THEN <<s[i]>> ELSE <<>>) \o Unescaped(s, i + 1)

Count(s, c) == Cardinality({i \in 1..Len(s) : s[i] = c})

\* the texts of a flattened sequence, one after the other
RECURSIVE AllText(_, _)
AllText(children, i) ==
    IF i > Len(children) THEN <<>>
    ELSE (IF children[i].type = "Fragment" THEN children[i].text
          ELSE AllText(children[i].original, 1) \o AllText(children[i].edited, 1))
         \o AllText(children, i + 1)

\* C8: in a prompt text with escape sequences \( , \) or \" the escaped
\* characters are literal text, opening and closing no group and no quoted
\* string, and the Fragment text has the characters ( , ) and " in their
\* place: the text parse_conjunction returns for one word with at most one
\* parenthesis or quote that is not escaped (so that nothing but an escaped
\* character could close a group or a quoted string) holds each of ( , ) and
\* " at least as often as the word escapes it.
C8_EscapesResolved ==
    /\ pc = "parsed"
    /\ Chars(input) \cap Whitespace = {}
    /\ \E i \in 1..Len(input) : EscapeAt(input, i)
    /\ Len(Unescaped(input, 1)) <= 1
    => /\ result.st = "ok"
       /\ Len(result.val.prompts) = 1
       /\ result.val.prompts[1].type = "FlattenedPrompt"
       /\ \A c \in EscapedChars :
             Count(AllText(result.val.prompts[1].children, 1), c)
                 >= Escapes(input, 1, c)

\* every sign of s follows a letter and stands before a space
StraySigns(s) ==
    \A i \in 1..Len(s) :
        s[i] \in {"+", "-"} =>
            /\ i > 1 /\ s[i - 1] \in Alphas
            /\ i < Len(s) /\ s[i + 1] = " "

\* words, open parentheses and stray signs, one space between any two
BadlyFormed(s) ==
    /\ Chars(s) \subseteq Alphas \cup {" ", "(", "+", "-"}
    /\ Chars(s) \cap {"(", "+", "-"} # {}
    /\ s[1] # " " /\ s[Len(s)] # " "
    /\ \A i \in 1..(Len(s) - 1) : ~(s[i] = " " /\ s[i + 1] = " ")
    /\ StraySigns(s)

\* C9: a prompt with unmatched parentheses or a stray attention sign that
\* completes no attention expression is no error: parse_conjunction returns
\* one FlattenedPrompt of one Fragment with the input text unchanged and
\* weight 1.0.
C9_PermissiveFallback ==
    pc = "parsed" /\ Len(input) > 0 /\ BadlyFormed(input) =>
        result = Ok(OnePrompt(<<Frag(input, One)>>))

UsesOperator(s) ==
    \/ Contains(s, dot_blend \o <<"(">>)
    \/ Contains(s, dot_swap \o <<"(">>)

\* C10: parse_conjunction returns a Conjunction or raises ParsingException
\* or UnrecognizedOperatorException, nothing else, and an input with neither
\* .blend( nor .swap( raises nothing.
C10_OnlyStructuralErrors ==
    pc = "parsed" =>
        /\ \/ result.st = "ok" /\ result.val.type = "Conjunction"
           \/ /\ result.st = "raise"
              /\ result.exc \in {"ParsingException", "UnrecognizedOperatorException"}
        /\ ~UsesOperator(input) => result.st = "ok"

----------------------------------------------------------------------------
(* Properties of blends *)

\* the sequences of 1 to n elements of S
SeqsUpTo(S, n) == UNION {[1..k -> S] : k \in 1..n}

\* sep.join(parts)
RECURSIVE Join(_, _)
Join(parts, sep) ==
    IF Len(parts) = 0 THEN <<>>
    ELSE IF Len(parts) = 1 THEN parts[1]
    ELSE parts[1] \o sep \o Join(Tail(parts), sep)

Quoted(p) == <<"\"">> \o p \o <<"\"">>

\* the blend expression ("p1",...,"pk").blend(w1,...,wm)
BlendText(ps, ws) ==
    <<"(">> \o Join([i \in 1..Len(ps) |-> Quoted(ps[i])], <<",">>)
        \o <<")">> \o dot_blend \o <<"(">> \o Join(ws, <<",">>) \o <<")">>

\* the quoted prompts and the weights the blends alphabet can type
BlendPrompts == {<<"a">>, <<"b">>, <<" ">>, <<"a", ",", "b">>}
BlendWeights == {<<"1">>, <<"2">>}
MaxBlend == 3

\* the parts of a Conjunction that are Blends have as many weights as prompts
BlendsCounted(root) ==
    \A i \in 1..Len(root.prompts) :
        root.prompts[i].type = "Blend" =>
            Len(root.prompts[i].prompts) = Len(root.prompts[i].weights)

\* the blend expressions of up to MaxBlend prompts and weights whose counts
\* differ
MismatchedBlends ==
    {BlendText(e[1], e[2]) :
        e \in {x \in SeqsUpTo(BlendPrompts, MaxBlend)
                        \X SeqsUpTo(BlendWeights, MaxBlend) :
                    Len(x[1]) # Len(x[2])}}

\* C11: every Blend that parse_conjunction returns has as many weights as
\* prompts, and a blend expression whose number of quoted prompts differs
\* from its number of numeric weights makes parse_conjunction raise
\* ParsingException.
C11_BlendCounts ==
    pc = "parsed" =>
        /\ result.st = "ok" => BlendsCounted(result.val)
        /\ input \in MismatchedBlends => result = Raise("ParsingException")

\* ("a","b").blend(1) was parsed
C11_Witness ==
    /\ pc = "parsed"
    /\ input = BlendText(<<<<"a">>, <<"b">>>>, <<<<"1">>>>)
    /\ result = Raise("ParsingException")

\* whether a substitute is among the nodes, at any depth
RECURSIVE HasSubstitute(_, _)
HasSubstitute(children, i) ==
    IF i > Len(children) THEN FALSE
    ELSE \/ children[i].type = "CrossAttentionControlSubstitute"
         \/ children[i].type = "Attention"
               /\ HasSubstitute(children[i].children, 1)
         \/ HasSubstitute(children, i + 1)

\* C12: constructing a Blend with a child Prompt that holds a
\* CrossAttentionControlSubstitute directly or nested inside an Attention
\* raises ParsingException.
C12_BlendForbidsSwap ==
    pc = "blended" /\ HasSubstitute(BuiltPrompt.children, 1)
        => out = Raise("ParsingException")

\* the value of a weight of BlendWeights
WeightValue(w) == IF w = <<"1">> THEN <<1, 1>> ELSE <<2, 1>>

\* the Blend the blend expression of the quoted prompts ps and the weights
\* ws stands for: each quoted prompt parsed on its own as a prompt and
\* flattened, the weights as written
BlendExpected(ps, ws) ==
    Conjunction(<<BlendNode([i \in 1..Len(ps) |->
                                parse_conjunction(ps[i]).val.prompts[1]],
                            [i \in 1..Len(ws) |-> WeightValue(ws[i])],
                            TRUE)>>)

\* the blend expressions of up to MaxBlend quoted prompts with as many
\* weights, each with the Conjunction it stands for
MatchedBlends ==
    {<<BlendText(e[1], e[2]), BlendExpected(e[1], e[2])>> :
        e \in {x \in SeqsUpTo(BlendPrompts, MaxBlend)
                        \X SeqsUpTo(BlendWeights, MaxBlend) :
                    Len(x[1]) = Len(x[2]) /\ Len(x[1]) >= 1}}

\* C13: parse_conjunction of ("p1",...,"pk").blend(w1,...,wk), k >= 1,
\* returns a Conjunction whose single part is a Blend of the k flattened
\* prompts, the i-th being p_i parsed on its own as a prompt (a blank p_i gives
\* the single fragment ('', 1.0)), with the weights as written and
\* normalize_weights true.
C13_BlendParsed ==
    pc = "parsed" =>
        \A e \in MatchedBlends : input = e[1] => result = Ok(e[2])

no_normalize == <<"n", "o", "_", "n", "o", "r", "m", "a", "l", "i", "z", "e">>

\* the blend expressions of up to MaxBlend quoted prompts with as many
\* weights and a trailing no_normalize, each with the values of its weights
FlaggedBlends ==
    {<<BlendText(e[1], Append(e[2], no_normalize)),
       [i \in 1..Len(e[2]) |-> WeightValue(e[2][i])]>> :
        e \in {x \in SeqsUpTo(BlendPrompts, MaxBlend)
                        \X SeqsUpTo(BlendWeights, MaxBlend) :
                    Len(x[1]) = Len(x[2]) /\ Len(x[1]) >= 1}}

\* C14: a blend expression whose weight list ends with the bare token
\* no_normalize parses to a Blend with normalize_weights false whose weights
\* are the numeric arguments only; the flag raises no error.
C14_NoNormalize ==
    pc = "parsed" =>
        \A e \in FlaggedBlends :
            input = e[1] =>
                /\ result.st = "ok"
                /\ Len(result.val.prompts) = 1
                /\ result.val.prompts[1].type = "Blend"
                /\ result.val.prompts[1].weights = e[2]
                /\ result.val.prompts[1].normalize_weights = FALSE

----------------------------------------------------------------------------
\* Properties of operators

\* the targets and arguments the "other operator" alphabet can type
OtherTargets == {<<"a">>, <<"\"", "a", "\"">>}
OtherArguments == {<<>>, <<"a">>, <<"b">>}

\* a target followed by the operator name foo and a parenthesized argument
OtherOperatorTexts ==
    {t \o <<".", "f", "o", "o", "(">> \o a \o <<")">> :
        t \in OtherTargets, a \in OtherArguments}

\* C15: a target followed by '.' and an operator name other than swap or
\* blend makes parse_conjunction raise UnrecognizedOperatorException.
C15_UnrecognizedOperator ==
    pc = "parsed" /\ input \in OtherOperatorTexts =>
        result = Raise("UnrecognizedOperatorException")

\* the openings of a swap the swaps alphabet can type: the text, the
\* fragments before the swap, the fragments of the target
SwapOpenings ==
    {<<<<"a">> \o dot_swap \o <<"(">>, <<>>, <<Frag(<<"a">>, One)>>>>,
     <<<<"c", " ", "a">> \o dot_swap \o <<"(">>,
       <<Frag(<<"c">>, One)>>, <<Frag(<<"a">>, One)>>>>,
     <<<<"\"", "a", " ", "b", "\"">> \o dot_swap \o <<"(">>,
       <<>>, <<Frag(<<"a", " ", "b">>, One)>>>>}

\* the replacements: the text, its fragments
SwapReplacements ==
    {<<<<>>, <<Frag(<<>>, One)>>>>, <<<<"b">>, <<Frag(<<"b">>, One)>>>>}

\* the key=value lists: the text, the pairs given
SwapOptionLists ==
    {<<<<>>, EmptyDict>>,
     <<<<",">> \o k_t_start \o <<"=", "1">>, [k \in {k_t_start} |-> NumVal(One)]>>,
     <<<<",">> \o k_s_end \o <<"=", "1">>, [k \in {k_s_end} |-> NumVal(One)]>>,
     <<<<",">> \o k_t_start \o <<"=", "1", ",">> \o k_s_end \o <<"=", "1">>,
       [k \in {k_t_start, k_s_end} |-> NumVal(One)]>>,
     <<<<",">> \o k_s_end \o <<"=", "1", ",">> \o k_t_start \o <<"=", "1">>,
       [k \in {k_t_start, k_s_end} |-> NumVal(One)]>>}

\* the closings: the text, the fragments after the swap
SwapClosings ==
    {<<<<")">>, <<>>>>, <<<<")", " ", "d">>, <<Frag(<<"d">>, One)>>>>}

\* s_start=0.0, s_end=0.2062994740159002 (to seven places), t_start=0.0,
\* t_end=1.0, overridden by the pairs given
SwapOptions(given) ==
    [k \in {k_s_start, k_s_end, k_t_start, k_t_end} |->
        IF k \in DOMAIN given THEN given[k]
        ELSE IF k = k_s_end THEN NumVal(Rat(2062995, 10000000))
        ELSE IF k = k_t_end THEN NumVal(One)
        ELSE NumVal(Zero)]

\* each swap expression with the flattened prompt it stands for
SwapCases ==
    {<<o[1] \o r[1] \o k[1] \o c[1],
       o[2] \o <<[type |-> "CrossAttentionControlSubstitute",
                  original |-> o[3], edited |-> r[2],
                  options |-> SwapOptions(k[2])]>> \o c[2]>> :
        o \in SwapOpenings, r \in SwapReplacements,
        k \in SwapOptionLists, c \in SwapClosings}

\* C16: target.swap(replacement[, key=value]*) in a prompt gives, in the
\* flattened result, exactly one CrossAttentionControlSubstitute at the
\* expression's position: original the target's fragments, edited the
\* replacement's fragments (one empty Fragment for an empty replacement),
\* options the defaults overridden by the pairs given; the text before and
\* after it stays in separate Fragments.
C16_SwapParsed ==
    pc = "parsed" =>
        \A e \in SwapCases : input = e[1] => result = Ok(OnePrompt(e[2]))

\* "c a.swap(,t_start=1) d" was parsed: text on both sides, an empty
\* replacement, an option given
C16_Witness ==
    /\ pc = "parsed"
    /\ input = <<"c", " ", "a">> \o dot_swap \o <<"(", ",">> \o k_t_start
                   \o <<"=", "1", ")", " ", "d">>
    /\ result.st = "ok"
    /\ Len(result.val.prompts[1].children) = 3
    /\ result.val.prompts[1].children[2].edited = <<Frag(<<>>, One)>>
    /\ result.val.prompts[1].children[2].options[k_t_start] = NumVal(One)

\* CrossAttentionControlSubstitute.__init__ returns: the innermost open call
\* is the edited list of a substitute and the step closes it
SubstituteConstructed ==
    /\ pc = "build"
    /\ Top.kind = "Edited"
    /\ Len(stack') = Len(stack) - 1

\* the node the step has constructed
Constructed == LET items == stack'[Len(stack')].items IN items[Len(items)]

\* C17 as stated: a CrossAttentionControlSubstitute constructed with options
\* containing shape_freedom = f has s_end = 1 - f^(1/3) in its final
\* options (1/2 for f = 1/8), and no key shape_freedom.
C17_ShapeFreedom ==
    [][SubstituteConstructed /\ k_shape_freedom \in DOMAIN Top.options
            /\ Top.options[k_shape_freedom] = NumVal(<<1, 8>>) =>
          /\ Constructed.options[k_s_end] = NumVal(<<1, 2>>)
          /\ k_shape_freedom \notin DOMAIN Constructed.options]_vars

\* C17 for options that hold shape_freedom = f and no s_end of their own
C17_ShapeFreedomAlone ==
    [][SubstituteConstructed /\ k_shape_freedom \in DOMAIN Top.options
            /\ Top.options[k_shape_freedom] = NumVal(<<1, 8>>)
            /\ k_s_end \notin DOMAIN Top.options =>
          /\ Constructed.options[k_s_end] = NumVal(<<1, 2>>)
          /\ k_shape_freedom \notin DOMAIN Constructed.options]_vars

\* a substitute was constructed with shape_freedom = 1/8: its s_end is 1/2
C17_Witness ==
    /\ pc = "build"
    /\ Len(stack) = 1
    /\ Len(stack[1].items) = 1
    /\ stack[1].items[1].type = "CrossAttentionControlSubstitute"
    /\ stack[1].items[1].options[k_s_end] = NumVal(<<1, 2>>)

----------------------------------------------------------------------------
\* Properties of legacy blends

\* sub-prompts of the legacy alphabet: the text, the prompt, the raw weight
LegacyEntries ==
    {<<<<"a", ":", "1", " ">>, <<"a">>, 1>>,
     <<<<"b", ":", "-", "1", " ">>, <<"b">>, 0 - 1>>,
     <<<<"b", ":", "2", " ">>, <<"b">>, 2>>}

MaxLegacy == 4

\* the texts of two to MaxLegacy such sub-prompts
LegacyLists == {es \in SeqsUpTo(LegacyEntries, MaxLegacy) : Len(es) >= 2}

RECURSIVE LegacyText(_)
LegacyText(es) == IF es = <<>> THEN <<>> ELSE Head(es)[1] \o LegacyText(Tail(es))

RECURSIVE RawSum(_)
RawSum(es) == IF es = <<>> THEN 0 ELSE Head(es)[3] + RawSum(Tail(es))

LegacyChildren(es) ==
    [i \in 1..Len(es) |-> FlattenedPrompt(<<Frag(es[i][2], One)>>)]

\* the texts whose raw weights sum to zero, each with the Blend of equal
\* weights 1/N
ZeroSumCases ==
    {<<LegacyText(es),
       BlendNode(LegacyChildren(es), [i \in 1..Len(es) |-> <<1, Len(es)>>], TRUE)>> :
        es \in {x \in LegacyLists : RawSum(x) = 0}}

\* the texts whose raw weights sum to S # 0, each with the Blend of the
\* weights raw_i / S
NonZeroSumCases ==
    {<<LegacyText(es),
       BlendNode(LegacyChildren(es),
                 [i \in 1..Len(es) |-> Quotient(<<es[i][3], 1>>, <<RawSum(es), 1>>)],
                 TRUE)>> :
        es \in {x \in LegacyLists : RawSum(x) # 0}}

RECURSIVE SumOf(_)
SumOf(ws) == IF ws = <<>> THEN Zero ELSE Add(Head(ws), SumOf(Tail(ws)))

\* C18: N >= 2 sub-prompts whose raw weights sum to exactly zero: no
\* failure, no division by zero, parse_legacy_blend returns a Blend with N
\* children whose weights are all 1/N.
C18_ZeroSumFallback ==
    pc = "legacy parsed" =>
        \A e \in ZeroSumCases : input = e[1] => result = Ok(e[2])

\* 'a:1 b:-1 ' was parsed to a Blend of weights 1/2, 1/2
C18_Witness ==
    /\ pc = "legacy parsed"
    /\ input = <<"a", ":", "1", " ", "b", ":", "-", "1", " ">>
    /\ result.st = "ok"
    /\ result.val.weights = <<<<1, 2>>, <<1, 2>>>>

\* C19: N >= 2 sub-prompts whose raw weights sum to S # 0: the Blend has the
\* N children in left-to-right order, the i-th weight is raw_i / S, the
\* weights sum to 1 and normalize_weights is true.
C19_Normalized ==
    pc = "legacy parsed" =>
        \A e \in NonZeroSumCases :
            input = e[1] => result = Ok(e[2]) /\ SumOf(result.val.weights) = One

\* 'a:1 b:2 ' was parsed to a Blend of weights 1/3, 2/3
C19_Witness ==
    /\ pc = "legacy parsed"
    /\ input = <<"a", ":", "1", " ", "b", ":", "2", " ">>
    /\ result.st = "ok"
    /\ result.val.weights = <<<<1, 3>>, <<2, 3>>>>
    /\ result.val.normalize_weights

\* the number of colon-delimited sub-prompts of the text
SubpromptCount == Len(parsed_prompts(input))

\* some sub-prompt of the text holds a swap
SubpromptSwaps ==
    \E i \in 1..SubpromptCount :
        HasSubstitute(parse_conjunction(parsed_prompts(input)[i][1]).val.prompts[1].children, 1)

\* C20 as stated: parse_legacy_blend returns None exactly when the text
\* splits into at most one sub-prompt, and a Blend for every text that
\* splits into two or more.
C20_NoneOrBlend ==
    pc = "legacy parsed" =>
        /\ result = None <=> SubpromptCount <= 1
        /\ SubpromptCount >= 2 => result.st = "ok" /\ result.val.type = "Blend"

\* C20 with the sub-prompts that cannot be blended set apart: None exactly
\* for at most one sub-prompt; for two or more, a Blend of as many children
\* when no sub-prompt holds a swap, ParsingException when one does.
C20_NoneOrBlendOrRaise ==
    pc = "legacy parsed" =>
        /\ result = None <=> SubpromptCount <= 1
        /\ SubpromptCount >= 2 /\ ~SubpromptSwaps =>
              /\ result.st = "ok"
              /\ result.val.type = "Blend"
              /\ Len(result.val.prompts) = SubpromptCount
        /\ SubpromptCount >= 2 /\ SubpromptSwaps => result = Raise("ParsingException")

\* the single 'a:1 ' gave None
C20_Witness ==
    /\ pc = "legacy parsed"
    /\ input = <<"a", ":", "1", " ">>
    /\ result = None

----------------------------------------------------------------------------
\* Properties of fusion and flattening

\* the sequence fuse_fragments returned for the built Prompt
FusedOutput == out.val.prompts[1].children

\* C21: fragment fusion applied to a sequence that is already the output of
\* fragment fusion returns an equal sequence.
C21_FusionIdempotent ==
    pc = "flattened" /\ out.st = "ok" =>
        fuse_fragments(FusedOutput) = FusedOutput

\* fusion has merged two Fragments next to a substitute, and fusing the
\* output again changes nothing
C21_Witness ==
    /\ pc = "flattened"
    /\ out.st = "ok"
    /\ Len(FusedOutput) = 2
    /\ FusedOutput[1] = Frag(<<"a", " ", "a">>, One)
    /\ FusedOutput[2].type = "CrossAttentionControlSubstitute"
    /\ fuse_fragments(FusedOutput) = FusedOutput

\* C22: for every FlattenedPrompt whose children are Fragments and
\* substitutes, is_empty returns true if the sequence is empty or is a single
\* Fragment with zero-length text, and false in every other case (a single
\* substitute included); it never raises.
C22_IsEmpty ==
    pc = "is_empty" =>
        out = Ok(\/ stack = <<>>
                 \/ Len(stack) = 1 /\ stack[1].type = "Fragment"
                        /\ stack[1].text = <<>>)

\* the sequence flatten hands to fuse_fragments for the built Prompt
Unfused == flatten_list(BuiltPrompt.children, 1, One, <<>>).val

TextEntry(text, weight) == [swap |-> FALSE, text |-> text, weight |-> weight]
SwapMark == [swap |-> TRUE, text |-> <<>>, weight |-> Zero]

\* a flattened sequence read as texts with weights, a substitute as a mark
Outline(items) ==
    [i \in 1..Len(items) |->
        IF items[i].type = "Fragment"
        THEN TextEntry(items[i].text, items[i].weight)
        ELSE SwapMark]

\* consecutive texts of equal weight joined by one space, marks kept apart
RECURSIVE MergedRuns(_)
MergedRuns(es) ==
    IF Len(es) <= 1 THEN es
    ELSE LET rest == MergedRuns(Tail(es)) IN
         IF ~es[1].swap /\ ~rest[1].swap /\ es[1].weight = rest[1].weight
         THEN <<TextEntry(es[1].text \o <<" ">> \o rest[1].text, es[1].weight)>>
                 \o Tail(rest)
         ELSE <<es[1]>> \o rest

\* C23: in the sequence fusion returns, no two adjacent entries are both
\* Fragments of equal weight; merged Fragments carry the texts of the
\* flattened Fragments joined by exactly one space; a substitute is merged
\* with nothing and keeps the Fragments on its two sides apart.
C23_Fusion ==
    pc = "flattened" /\ out.st = "ok" =>
        /\ \A i \in 1..(Len(FusedOutput) - 1) :
              ~ /\ FusedOutput[i].type = "Fragment"
                /\ FusedOutput[i + 1].type = "Fragment"
                /\ FusedOutput[i].weight = FusedOutput[i + 1].weight
        /\ Outline(FusedOutput) = MergedRuns(Outline(Unfused))

\* the flattened form due to a sequence of Fragments and Attentions under
\* scale s: every leaf in depth-first order, its weight times s and times the
\* weights of the Attentions around it
RECURSIVE DueFlat(_, _, _)
DueFlat(children, i, s) ==
    IF i > Len(children) THEN <<>>
    ELSE LET c == children[i]
             here == IF c.type = "Fragment"
                     THEN <<Fragment(c.text, Mul(c.weight, s))>>
                     ELSE DueFlat(c.children, 1, Mul(s, c.weight))
         IN here \o DueFlat(children, i + 1, s)

\* the substitute due to substitute c under scale s, its sequences fused
DueSubstitute(c, s) ==
    LET e == DueFlat(c.edited, 1, s) IN
    [type |-> "CrossAttentionControlSubstitute",
     original |-> fuse_fragments(DueFlat(c.original, 1, s)),
     edited |-> IF e = <<>> THEN <<Frag(<<>>, One)>> ELSE fuse_fragments(e),
     options |-> c.options]

\* the substitutes due to a tree, depth-first, each under the scale
\* accumulated from the Attentions around it
RECURSIVE DueSubstitutes(_, _, _)
DueSubstitutes(children, i, s) ==
    IF i > Len(children) THEN <<>>
    ELSE LET c == children[i]
             here ==
                CASE c.type = "CrossAttentionControlSubstitute" ->
                        <<DueSubstitute(c, s)>>
                  [] c.type = "Attention" ->
                        DueSubstitutes(c.children, 1, Mul(s, c.weight))
                  [] OTHER -> <<>>
         IN here \o DueSubstitutes(children, i + 1, s)

IsSubstitute(x) == x.type = "CrossAttentionControlSubstitute"
IsFragment(x) == x.type = "Fragment"

\* the number of leaves outside every substitute
RECURSIVE OuterLeaves(_, _)
OuterLeaves(children, i) ==
    IF i > Len(children) THEN 0
    ELSE LET c == children[i]
             here == CASE c.type = "Fragment" -> 1
                       [] c.type = "Attention" -> OuterLeaves(c.children, 1)
                       [] OTHER -> 0
         IN here + OuterLeaves(children, i + 1)

\* the number of leaves fused into a sequence of Fragments of one-word leaves
RECURSIVE FusedLeaves(_)
FusedLeaves(frags) ==
    IF frags = <<>> THEN 0
    ELSE 1 + Count(frags[1].text, " ") + FusedLeaves(Tail(frags))

SplitHeads == {<<<<>>, <<>>>>, <<<<"a">>, <<"a">>>>, <<<<BS, ":">>, <<":">>>>}

\* what may close a sub-prompt: the rest of its text, the colons with the
\* weight and the whitespace after it, and the raw weight
SplitClosers ==
    {<<<<>>, <<":">>, 1>>, <<<<>>, <<":", ":">>, 1>>,
     <<<<"a">>, <<":", "1", " ">>, 1>>,
     <<<<"b">>, <<":", "-", "1", " ">>, 0 - 1>>,
     <<<<"b">>, <<":", "2", " ">>, 2>>}

\* sub-prompts that end at a colon: typed text, returned text, raw weight
ColonEntries ==
    {<<h[1] \o c[1] \o c[2], h[2] \o c[1], c[3]>> :
        h \in SplitHeads, c \in {x \in SplitClosers : x[1] # <<>>}}
    \cup {<<h[1] \o c[2], h[2], c[3]>> :
        h \in {x \in SplitHeads : x[1] # <<>>},
        c \in {x \in SplitClosers : x[1] = <<>>}}

\* a sub-prompt that ends with the text, or none
FinalEntries == {<<h[1], h[2], 1>> : h \in SplitHeads}

SplitPairs(es) ==
    [i \in 1..Len(es) |-> <<es[i][2], <<es[i][3], 1>>>>]

\* texts of no to two sub-prompts that end at a colon and at most one that
\* ends with the text, each with the pairs due
SplitCases ==
    {<<LegacyText(es) \o f[1],
       SplitPairs(IF f[1] = <<>> THEN es ELSE Append(es, f))>> :
        es \in SeqsUpTo(ColonEntries, 2) \cup {<<>>}, f \in FinalEntries}

\* C25: split_weighted_subprompts scans left to right; each sub-prompt is
\* the maximal run of characters up to the next unescaped colon, an escaped
\* colon staying inside and returned as ':'; its raw weight is the number
\* directly after the colon(s), or 1 when no digits follow directly or the
\* text ends without a colon; the whitespace after the weight belongs to no
\* sub-prompt.
C25_LegacySplit ==
    pc = "split raw" =>
        \A e \in SplitCases : input = e[1] => result = Ok(e[2])

\* \:a:1 b:2 was split into ':a' with weight 1 and 'b' with weight 2
C25_Witness ==
    /\ pc = "split raw"
    /\ input = <<BS, ":", "a", ":", "1", " ", "b", ":", "2", " ">>
    /\ result = Ok(<<<< <<":", "a">>, One >>, << <<"b">>, <<2, 1>> >>>>)
    /\ \E e \in SplitCases : input = e[1]

\* C26: flatten is idempotent on its own output: handed the Conjunction it
\* returned, it returns an equal Conjunction.
C26_FlattenIdempotent ==
    pc = "flattened twice" => result = out

\* the built Prompt holds Fragments only, no two neighbours of equal weight:
\* flatten rebuilds every one of them and fusion merges none
UnfusedLeaves ==
    /\ \A i \in 1..Len(BuiltPrompt.children) :
          BuiltPrompt.children[i].type = "Fragment"
    /\ \A i \in 1..(Len(BuiltPrompt.children) - 1) :
          BuiltPrompt.children[i].weight # BuiltPrompt.children[i + 1].weight

\* C27: re-wrapping a Fragment's text in a new Fragment does not change it:
\* the Fragments flatten rebuilds carry the texts and weights of the
\* Fragments of the tree, whatever the text.
C27_RewrapKeepsText ==
    pc = "flattened" /\ out.st = "ok" /\ UnfusedLeaves =>
        FusedOutput = BuiltPrompt.children

(***************************************************************************)
(* Properties of the substitute's constructor                              *)
(***************************************************************************)

\* C28: constructing a CrossAttentionControlSubstitute leaves the caller's
\* options map unchanged, so substitutes constructed one after the other
\* from the same map have equal options.
C28_OptionsUntouched ==
    pc = "construct" /\ Len(stack) >= 1 =>
        /\ out = result
        /\ \A i \in 1..Len(stack) : stack[i].options = stack[1].options

(***************************************************************************)
(* Properties of the weighted embedder's token lists                       *)
(***************************************************************************)

\* the tokens of the item's fragments in order, each fragment cut to
\* max_length - 2 tokens by the tokenizer, paired with the fragment's weight
RECURSIVE PairedTokens(_)
PairedTokens(pairs) ==
    IF pairs = <<>> THEN <<>>
    ELSE LET words == Head(pairs)[1]
             kept == IF Len(words) > max_length - 2
                     THEN max_length - 2 ELSE Len(words)
         IN [k \in 1..kept |-> <<words[k], Head(pairs)[2]>>]
                \o PairedTokens(Tail(pairs))

\* the prompt tokens that fit between bos and one eos
FittingTokens ==
    LET all == PairedTokens(stack) IN
    SubSeq(all, 1, IF Len(all) > max_length - 2 THEN max_length - 2 ELSE Len(all))

\* C29: the assembled token list has exactly max_length entries: bos, the
\* prompt tokens (cut to max_length - 2), then eos padding; the weight list
\* has the same length, each prompt token paired with the weight of the
\* fragment it came from.
C29_TokenLists ==
    pc = "forward" =>
        LET tokens == out.val.tokens
            weights == out.val.weights
            n == Len(FittingTokens)
        IN /\ Len(tokens) = max_length
           /\ Len(weights) = Len(tokens)
           /\ tokens[1] = bos_token_id
           /\ \A k \in 1..n :
                 <<tokens[k + 1], weights[k + 1]>> = FittingTokens[k]
           /\ \A k \in (n + 2)..max_length : tokens[k] = eos_token_id

(***************************************************************************)
(* Properties of the edit opcodes                                          *)
(***************************************************************************)

edit_opcodes == out.val.edit_opcodes
edit_options == out.val.edit_options

\* C30: the edit opcodes form two contiguous chains of token ranges: the
\* first is ('equal', 0, 1, 0, 1); each later one starts, on both sides,
\* where the one before ended; an 'equal' spans the same number of tokens on
\* both sides; the last is an 'equal' of length 1; edit_options has the
\* length of edit_opcodes, with an entry other than None exactly at the
\* 'replace' opcodes.
C30_OpcodeChains ==
    pc = "conditioning" =>
        /\ Len(edit_opcodes) = Len(stack) + 2
        /\ edit_opcodes[1] = <<"equal", 0, 1, 0, 1>>
        /\ \A i \in 2..Len(edit_opcodes) :
              /\ edit_opcodes[i][2] = edit_opcodes[i - 1][3]
              /\ edit_opcodes[i][4] = edit_opcodes[i - 1][5]
        /\ \A i \in 1..Len(edit_opcodes) :
              /\ edit_opcodes[i][1] \in {"equal", "replace"}
              /\ edit_opcodes[i][3] >= edit_opcodes[i][2]
              /\ edit_opcodes[i][5] >= edit_opcodes[i][4]
              /\ edit_opcodes[i][1] = "equal" =>
                    edit_opcodes[i][3] - edit_opcodes[i][2]
                        = edit_opcodes[i][5] - edit_opcodes[i][4]
        /\ LET last == edit_opcodes[Len(edit_opcodes)] IN
              /\ last[1] = "equal"
              /\ last[3] = last[2] + 1
              /\ last[5] = last[4] + 1
        /\ Len(edit_options) = Len(edit_opcodes)
        /\ \A i \in 1..Len(edit_opcodes) :
              (edit_options[i] # None) <=> (edit_opcodes[i][1] = "replace")

\* 'a' followed by a swap of 'a' for 'a b', then 'a': the sides part ways
C30_Witness ==
    /\ pc = "conditioning"
    /\ Len(stack) = 3
    /\ stack[1] = Fragment(<<"a">>, One)
    /\ stack[2].type = "CrossAttentionControlSubstitute"
    /\ stack[3] = Fragment(<<"a">>, One)
    /\ edit_opcodes = << <<"equal", 0, 1, 0, 1>>, <<"equal", 1, 2, 1, 2>>,
                         <<"replace", 2, 3, 2, 4>>, <<"equal", 3, 4, 4, 5>>,
                         <<"equal", 4, 5, 5, 6>> >>
    /\ edit_options[3] = Ok(stack[2].options)
    /\ edit_options[4] = None
====
